---- MODULE Spec2Model ----
(***************************************************************************)
(* Queue engine of elzamli/queue-system (src/app.py): stations, operators, *)
(* queue entries and the history table, and the request handlers that      *)
(* mutate them under the process-wide lock db_lock.                        *)
(*                                                                         *)
(* Each handler thread is a process with a position pc[t].  A handler that *)
(* enters `with db_lock` takes the lock in its first step and gives it up  *)
(* in handler_return.  call_next_customer and finish_customer are split at  *)
(* their SQL statements (SELECT / UPDATE, UPDATE / UPDATE) so that the     *)
(* effect of each statement is a step of its own; the other handlers run   *)
(* their body in one step.  CURRENT_TIMESTAMP is the wall clock `now`,     *)
(* which has a resolution of one second: any number of steps may fall into *)
(* the same second.                                                        *)
(***************************************************************************)
EXTENDS Integers, Sequences, FiniteSets, TLC

VARIABLES stations, entries, history, nextId, now, lock, pc, sel, resp, txn, cap,
          journal, history_ok

vars == <<stations, entries, history, nextId, now, lock, pc, sel, resp, txn, cap,
          journal, history_ok>>

----------------------------------------------------------------------------
(* Bounds of the model. *)

\* customer numbers 1..MaxCustomer
MaxCustomer == 2
\* queue_entries.id values handed out by AUTOINCREMENT
MaxEntryId == 2
\* seconds of the wall clock
MaxTime == 1
\* seconds of the wall clock while one customer makes the round trip
MaxRoundTripTime == 4
\* largest position requested of insert_customer_at_position
MaxPosition == 1
\* rows of queue_entries_history
MaxHistory == 5
\* request-handling threads
NumThreads == 2
\* customer numbers, entry ids and history rows of the runs with the station
\* toggles
MaxToggleCustomer == 1
MaxToggleEntryId == 1
MaxToggleHistory == 2
MaxFaultsEntryId == 1
MaxFaultsHistory == 5
MaxHistoryLost == 2
MaxAdminEntryId == 1
MaxAdminHistory == 4
MaxRollbackEntryId == 2
MaxRollbackHistory == 2
MaxInvalidEntryId == 1
MaxInvalidHistory == 4
MaxEditEntryId == 2
MaxEditHistory == 3
MaxReturnEntryId == 3
MaxReturnHistory == 5
\* entry ids and history rows of the runs over every grouping of the stations
MaxGroupsEntryId == 2
MaxGroupsHistory == 2
\* customer numbers, entry ids, positions and history rows of the runs that
\* exercise the waiting line
MaxQueueCustomer == 3
MaxQueueEntryId == 3
MaxQueuePosition == 3
MaxQueueHistory == 2
MaxFifoEntryId == 3
MaxFifoHistory == 6
MaxTransferEntryId == 2
MaxTransferHistory == 4
MaxVisitsEntryId == 3
MaxVisitsHistory == 9

Threads == 1..NumThreads
Customers == 1..MaxCustomer

----------------------------------------------------------------------------
(* Values. *)

\* SQL NULL in an integer or timestamp column
NULL == 0 - 1
\* no thread holds db_lock
NoThread == 0
\* a falsy request field (missing, None, 0, '')
Missing == 0

\* the name transfer_to_poked looks up, and the name it writes to history
PokedName == "Poked 1"
PokedHistoryName == "Poked"

\* stations of config.json: 1 has no queue group, 2 and 3 share group "G"
StationIds == {1, 2, 3}
\* a station id no row of `stations` has
UnknownStation == 4
NoGroup == ""

\* the configured station that carries PokedName: a member of group "G"
PokedCandidates == {3}

StationConfig(poked) ==
    [s \in StationIds |->
        [name |-> IF s = poked THEN PokedName
                  ELSE IF s = 1 THEN "A" ELSE IF s = 2 THEN "B" ELSE "C",
         queue_group_id |-> IF s = 1 THEN NoGroup ELSE "G",
         is_active |-> 1,
         hidden |-> 0,
         restricted |-> 0]]

\* operators of config.json: one per station, and a finish operator with no station
Operators ==
    { [code |-> "op1", station_id |-> 1, finish_operator |-> 0],
      [code |-> "op2", station_id |-> 2, finish_operator |-> 0],
      [code |-> "op3", station_id |-> 3, finish_operator |-> 0],
      [code |-> "fin", station_id |-> NULL, finish_operator |-> 1] }

\* operator codes a request may carry: the known ones, an unknown one, none
OperatorCodes == {o.code : o \in Operators} \cup {"bad", ""}

Active == {"waiting", "called"}

\* what a handler has read and keeps for its next statement
NoSel == [station_id |-> NULL, id |-> NULL, customer_number |-> NULL,
          new_status |-> NULL]

\* what a handler sends back: the outcome, the customer number and the station
\* name that the JSON body carries (NULL and "" when it carries none), and
\* the rows of a read aggregator, one per station it reports
NoRows == <<>>

NoResp == [op |-> "none", result |-> "none", customer_number |-> NULL,
           detail |-> "", rows |-> NoRows]

Response(op, result, customer_number, detail) ==
    [op |-> op, result |-> result, customer_number |-> customer_number,
     detail |-> detail, rows |-> NoRows]

\* jsonify(result) of a read aggregator
RowsResponse(op, rows) ==
    [op |-> op, result |-> "ok", customer_number |-> NULL,
     detail |-> "", rows |-> rows]

----------------------------------------------------------------------------
(* Queries. *)

\* SELECT ... LIMIT 1 without ORDER BY: SQLite scans the table in rowid order
FirstById(S) == CHOOSE e \in S : \A x \in S : e.id <= x.id

\* variant: the last station of the group in place of the first
FirstStationInGroup_last(group) ==
    LET members == {s \in DOMAIN stations : stations[s].queue_group_id = group}
    IN  CHOOSE s \in members : \A x \in members : x <= s

\* SELECT id FROM stations WHERE queue_group_id = ? LIMIT 1
FirstStationInGroup(group) ==
    LET members == {s \in DOMAIN stations : stations[s].queue_group_id = group}
    IN  CHOOSE s \in members : \A x \in members : s <= x

\* variant: every station keeps its own waiting line
queue_station_id_of_request(station_id) == station_id

\* "Get the actual station to add to"
queue_station_id(station_id) ==
    IF stations[station_id].queue_group_id # NoGroup
    THEN FirstStationInGroup(stations[station_id].queue_group_id)
    ELSE station_id

\* ORDER BY position ASC, created_at ASC; SQLite's sort keeps rowid order on ties
Before(a, b) ==
    \/ a.position < b.position
    \/ a.position = b.position /\ a.created_at < b.created_at
    \/ a.position = b.position /\ a.created_at = b.created_at /\ a.id < b.id

\* variant: LIMIT 1 without the ORDER BY
FirstInOrder_unordered(S) == CHOOSE e \in S : \A x \in S : e.id <= x.id

\* ... ORDER BY position ASC, created_at ASC LIMIT 1
FirstInOrder(S) == CHOOSE e \in S : \A x \in S \ {e} : Before(e, x)

\* index of e in enumerate(rows ordered by position, created_at)
IndexInOrder(e, S) == Cardinality({x \in S : Before(x, e)})

Max(S) == CHOOSE m \in S : \A x \in S : x <= m

WaitingAt(E, station_id) ==
    {e \in E : e.station_id = station_id /\ e.status = "waiting"}

\* variant: the SELECT without the station filter
CallCandidates_any_station(E, station_id) == {e \in E : e.status = "waiting"}

\* the rows call_next_customer selects from
CallCandidates(E, station_id) ==
    IF stations[station_id].queue_group_id # NoGroup
    THEN {e \in E : /\ e.status = "waiting"
                    /\ e.station_id \in DOMAIN stations
                    /\ stations[e.station_id].queue_group_id
                         = stations[station_id].queue_group_id}
    ELSE WaitingAt(E, queue_station_id(station_id))

NewEntry(id, station_id, customer_number, position) ==
    [id |-> id, station_id |-> station_id, customer_number |-> customer_number,
     status |-> "waiting", position |-> position, created_at |-> now,
     called_at |-> NULL, completed_at |-> NULL, finished_at |-> NULL,
     released_at |-> NULL]

\* variant: INSERT OR REPLACE keeps one history row per customer
log_to_history_replace(h, customer_number, station_id, station_name, status, action) ==
    Append(SelectSeq(h, LAMBDA r : r.customer_number # customer_number),
           [customer_number |-> customer_number, station_id |-> station_id,
            station_name |-> station_name, status |-> status,
            action |-> action])

\* try: INSERT INTO queue_entries_history ...; except Exception: log_action(...)
\* (history_ok tells whether the INSERT succeeds; a failed INSERT writes no
\* row and leaves the transaction as it was)
log_to_history(h, customer_number, station_id, station_name, status, action) ==
    IF history_ok
    THEN Append(h, [customer_number |-> customer_number,
                    station_id |-> station_id, station_name |-> station_name,
                    status |-> status, action |-> action])
    ELSE h

----------------------------------------------------------------------------
(* Initial state: init_db has created the empty tables and loaded config. *)

\* no transaction has written rows that it has not committed
NoJournal == [open |-> FALSE, entries |-> {}, history |-> <<>>, nextId |-> 0]

\* the freshly initialised database and the idle handler threads; cap holds
\* the number of entry ids and of history rows the run may use
Start(configs, ids, rows) ==
    /\ stations \in configs
    /\ entries = {}
    /\ history = <<>>
    /\ nextId = 1
    /\ now = 0
    /\ lock = NoThread
    /\ pc = [t \in Threads |-> "idle"]
    /\ sel = [t \in Threads |-> NoSel]
    /\ resp = [t \in Threads |-> NoResp]
    /\ txn = [t \in Threads |-> FALSE]
    /\ cap = [ids |-> ids, history |-> rows]
    /\ journal = NoJournal
    /\ history_ok = TRUE

Configs == {StationConfig(poked) : poked \in PokedCandidates}

Init == Start(Configs, MaxEntryId, MaxHistory)

\* variant: the handlers run without `with db_lock`
LockFree_no_lock == TRUE

\* db_lock can be taken
LockFree == lock = NoThread

\* a handler returns before `with db_lock` (validation of the request)
Reject(t, r) ==
    /\ pc' = [pc EXCEPT ![t] = "done"]
    /\ resp' = [resp EXCEPT ![t] = r]
    /\ UNCHANGED <<stations, entries, history, nextId, now, lock, sel, txn, cap, journal, history_ok>>

\* variant: the refusal is written to the history
Fail_logged(t, r) ==
    /\ lock' = t
    /\ pc' = [pc EXCEPT ![t] = "done"]
    /\ resp' = [resp EXCEPT ![t] = r]
    /\ history' = Append(history, [customer_number |-> NULL, station_id |-> NULL,
                                   station_name |-> "", status |-> r.result,
                                   action |-> "refused"])
    /\ UNCHANGED <<stations, entries, nextId, now, sel, txn, cap, journal, history_ok>>

\* a handler returns an error from inside `with db_lock` before any write
Fail(t, r) ==
    /\ lock' = t
    /\ pc' = [pc EXCEPT ![t] = "done"]
    /\ resp' = [resp EXCEPT ![t] = r]
    /\ UNCHANGED <<stations, entries, history, nextId, now, sel, txn, cap, journal, history_ok>>

\* a handler that has run BEGIN IMMEDIATE returns an error from inside
\* `with db_lock` without commit or rollback: its transaction stays open
FailInTransaction(t, r) ==
    /\ lock' = t
    /\ pc' = [pc EXCEPT ![t] = "done"]
    /\ resp' = [resp EXCEPT ![t] = r]
    /\ txn' = [txn EXCEPT ![t] = TRUE]
    /\ UNCHANGED <<stations, entries, history, nextId, now, sel, cap, journal, history_ok>>

\* variant: a history row that was not written makes the handler fail and
\* roll back
Commit_needs_history(t, r, E, h, id) ==
    /\ id <= cap.ids + 1
    /\ Len(h) <= cap.history
    /\ lock' = t
    /\ pc' = [pc EXCEPT ![t] = "done"]
    /\ resp' = [resp EXCEPT ![t] =
                  IF h = history THEN Response(r.op, "StorageError", NULL, "")
                  ELSE r]
    /\ entries' = IF h = history THEN entries ELSE E
    /\ history' = h
    /\ nextId' = IF h = history THEN nextId ELSE id
    /\ txn' = [txn EXCEPT ![t] = FALSE]
    /\ UNCHANGED <<stations, now, sel, cap, journal, history_ok>>

\* a handler commits new contents of queue_entries and of the history
Commit(t, r, E, h, id) ==
    /\ id <= cap.ids + 1
    /\ Len(h) <= cap.history
    /\ lock' = t
    /\ pc' = [pc EXCEPT ![t] = "done"]
    /\ resp' = [resp EXCEPT ![t] = r]
    /\ entries' = E
    /\ history' = h
    /\ nextId' = id
    /\ txn' = [txn EXCEPT ![t] = FALSE]
    /\ UNCHANGED <<stations, now, sel, cap, journal, history_ok>>

----------------------------------------------------------------------------
(* POST /api/add-entry *)

\* variant: only a waiting entry counts as being in a queue
ExistingActive_waiting_only(E, customer_number) ==
    {e \in E : e.customer_number = customer_number /\ e.status = "waiting"}

\* the row add_entry and insert_customer_at_position take for "in a queue"
ExistingActive(E, customer_number) ==
    {e \in E : e.customer_number = customer_number /\ e.status \in Active}

\* "Check if customer already in queue"
AlreadyInQueue(E, station_id, customer_number) ==
    \E e \in E : /\ e.station_id = station_id
                 /\ e.customer_number = customer_number
                 /\ e.status \in Active

\* variant: the transfer leaves the entries of the other queue in place
DeleteAtStation_keep(E, customer_number, station_id) == E

\* DELETE FROM queue_entries WHERE customer_number = ? AND station_id = ?
\*   AND status != 'completed'
DeleteAtStation(E, customer_number, station_id) ==
    {e \in E : ~(/\ e.customer_number = customer_number
                 /\ e.station_id = station_id
                 /\ e.status # "completed")}

\* variant: the number of waiting entries in place of the largest position
max_position_count(E, station_id) == Cardinality(WaitingAt(E, station_id))

\* SELECT COALESCE(MAX(position), 0) ... WHERE station_id = ? AND status = 'waiting'
max_position(E, station_id) ==
    IF WaitingAt(E, station_id) = {} THEN 0
    ELSE Max({e.position : e \in WaitingAt(E, station_id)})

\* the INSERT at the tail, the history record `added`, the commit
AddAtEnd(t, E, station_id, customer_number) ==
    LET qs == queue_station_id(station_id)
    IN  Commit(t, Response("add_entry", "ok", customer_number, ""),
                  E \cup {NewEntry(nextId, qs, customer_number,
                                   max_position(E, qs) + 1)},
                  log_to_history(history, customer_number, qs,
                                 stations[qs].name, "waiting", "added"),
               nextId + 1)

\* variant: the conflict names the station of the request
other_station_name_of_request(other_station_id, station_id) ==
    stations[station_id].name

\* SELECT name FROM stations WHERE id = other_station_id
other_station_name(other_station_id, station_id) ==
    stations[other_station_id].name

add_entry(t, station_id, customer_number, transfer) ==
    /\ pc[t] = "idle"
    /\ IF station_id = Missing \/ customer_number = Missing
       THEN Reject(t, Response("add_entry", "ValidationError", NULL, ""))
       ELSE LockFree /\
            IF station_id \notin DOMAIN stations
       THEN FailInTransaction(t, Response("add_entry", "NotFound", NULL, ""))
       ELSE IF AlreadyInQueue(entries, queue_station_id(station_id), customer_number)
       THEN FailInTransaction(t, Response("add_entry", "DuplicateInQueue",
                                          NULL, ""))
       ELSE IF ExistingActive(entries, customer_number) = {}
       THEN AddAtEnd(t, entries, station_id, customer_number)
       ELSE LET other_station_id ==
                    FirstById(ExistingActive(entries, customer_number)).station_id
            IN  IF ~transfer
                THEN FailInTransaction(t,
                         Response("add_entry", "ConflictAcrossQueues",
                                  customer_number,
                                  other_station_name(other_station_id,
                                                     station_id)))
                ELSE AddAtEnd(t, DeleteAtStation(entries, customer_number,
                                                 other_station_id),
                              station_id, customer_number)

----------------------------------------------------------------------------
(* POST /api/call-next/<station_id> *)

\* variant: an operator with finish_operator set may call at any station
OperatorOfStation_or_finish_operator(operator_code, station_id) ==
    \E o \in Operators :
        /\ o.code = operator_code
        /\ (o.station_id = station_id \/ o.finish_operator = 1)

\* the operator row call_next_customer requires
OperatorOfStation(operator_code, station_id) ==
    \E o \in Operators : o.code = operator_code /\ o.station_id = station_id

\* up to `if not entry`: the operator check and the SELECT of the next entry
call_next_select(t, station_id, operator_code) ==
    /\ pc[t] = "idle"
    /\ IF operator_code = ""
       THEN Reject(t, Response("call_next", "ValidationError", NULL, ""))
       ELSE LockFree /\
            IF ~OperatorOfStation(operator_code, station_id)
       THEN Fail(t, Response("call_next", "Unauthorized", NULL, ""))
       ELSE IF CallCandidates(entries, station_id) = {}
       THEN Fail(t, Response("call_next", "QueueEmpty", NULL, ""))
       ELSE LET entry == FirstInOrder(CallCandidates(entries, station_id))
            IN  /\ Len(history) + 1 <= cap.history
                /\ lock' = t
                /\ pc' = [pc EXCEPT ![t] = "selected"]
                /\ sel' = [sel EXCEPT ![t] =
                             [station_id |-> station_id, id |-> entry.id,
                              customer_number |-> entry.customer_number,
                              new_status |-> NULL]]
                /\ UNCHANGED <<stations, entries, history, nextId, now, resp, txn, cap, journal, history_ok>>

\* variant: the UPDATE completes the entries called at the station that
\* holds the group's queue
CompleteCalledAt_queue_station(E, station_id) ==
    {IF e.station_id = queue_station_id(station_id) /\ e.status = "called"
     THEN [e EXCEPT !.status = "completed", !.completed_at = now]
     ELSE e : e \in E}

\* variant: the UPDATE without `station_id = ?`
CompleteCalledAt_every_station(E, station_id) ==
    {IF e.status = "called"
     THEN [e EXCEPT !.status = "completed", !.completed_at = now]
     ELSE e : e \in E}

\* UPDATE ... SET status = 'completed' WHERE station_id = ? AND status = 'called'
CompleteCalledAt(E, station_id) ==
    {IF e.station_id = station_id /\ e.status = "called"
     THEN [e EXCEPT !.status = "completed", !.completed_at = now]
     ELSE e : e \in E}

\* variant: the UPDATE without `station_id = ?`
CallEntry_keeps_station(E, id, station_id) ==
    {IF e.id = id
     THEN [e EXCEPT !.status = "called", !.called_at = now]
     ELSE e : e \in E}

\* UPDATE ... SET status = 'called', called_at = ..., station_id = ? WHERE id = ?
CallEntry(E, id, station_id) ==
    {IF e.id = id
     THEN [e EXCEPT !.status = "called", !.called_at = now,
                    !.station_id = station_id]
     ELSE e : e \in E}

\* DELETE ... WHERE customer_number = ? AND station_id != ? AND status = 'waiting'
DeleteWaitingElsewhere(E, customer_number, station_id) ==
    {e \in E : ~(/\ e.customer_number = customer_number
                 /\ e.station_id # station_id
                 /\ e.status = "waiting")}

\* from the first UPDATE to the commit
call_next_update(t) ==
    /\ pc[t] = "selected"
    /\ LET s == sel[t].station_id
           called == CallEntry(CompleteCalledAt(entries, s), sel[t].id, s)
       IN  /\ entries' = IF stations[s].queue_group_id # NoGroup
                         THEN DeleteWaitingElsewhere(called, sel[t].customer_number, s)
                         ELSE called
           /\ history' = log_to_history(history, sel[t].customer_number, s,
                                        stations[s].name, "called", "called")
           /\ resp' = [resp EXCEPT ![t] =
                         Response("call_next", "ok", sel[t].customer_number, "")]
    /\ pc' = [pc EXCEPT ![t] = "done"]
    /\ sel' = [sel EXCEPT ![t] = NoSel]
    /\ UNCHANGED <<stations, nextId, now, lock, txn, cap, journal, history_ok>>

----------------------------------------------------------------------------
(* POST /api/finish-customer *)

\* variant: the UPDATE to `completed` without completed_at
CompleteCalledOf_unstamped(E, customer_number) ==
    {IF e.customer_number = customer_number /\ e.status = "called"
     THEN [e EXCEPT !.status = "completed"]
     ELSE e : e \in E}

\* UPDATE ... SET status = 'completed' WHERE customer_number = ? AND status = 'called'
CompleteCalledOf(E, customer_number) ==
    {IF e.customer_number = customer_number /\ e.status = "called"
     THEN [e EXCEPT !.status = "completed", !.completed_at = now]
     ELSE e : e \in E}

\* variant: the UPDATE to `finished` stamps completed_at again
FinishCompletedOf_restamps(E, customer_number) ==
    {IF e.customer_number = customer_number /\ e.status = "completed"
     THEN [e EXCEPT !.status = "finished", !.finished_at = now,
                    !.completed_at = now]
     ELSE e : e \in E}

\* UPDATE ... SET status = 'finished' WHERE customer_number = ? AND status = 'completed'
FinishCompletedOf(E, customer_number) ==
    {IF e.customer_number = customer_number /\ e.status = "completed"
     THEN [e EXCEPT !.status = "finished", !.finished_at = now]
     ELSE e : e \in E}

\* variant: finish_customer also takes a waiting entry
InService_any_active(e, customer_number) ==
    e.customer_number = customer_number /\ e.status \in Active

\* the status finish_customer requires of the customer's entry
InService(e, customer_number) ==
    e.customer_number = customer_number /\ e.status = "called"

\* up to the history record `completed`
finish_customer(t, customer_number) ==
    /\ pc[t] = "idle"
    /\ IF customer_number = Missing
       THEN Reject(t, Response("finish_customer", "ValidationError", NULL, ""))
       ELSE LockFree /\
            IF {e \in entries : InService(e, customer_number)} = {}
       THEN Fail(t, Response("finish_customer", "NotInService", NULL, ""))
       ELSE LET customer_station_id ==
                    FirstById({e \in entries :
                                 InService(e, customer_number)}).station_id
            IN  /\ Len(history) + 2 <= cap.history
                /\ lock' = t
                /\ pc' = [pc EXCEPT ![t] = "completed"]
                /\ sel' = [sel EXCEPT ![t] =
                             [station_id |-> customer_station_id, id |-> NULL,
                              customer_number |-> customer_number,
                              new_status |-> NULL]]
                /\ entries' = CompleteCalledOf(entries, customer_number)
                /\ history' = log_to_history(history, customer_number,
                                  customer_station_id,
                                  stations[customer_station_id].name,
                                  "completed", "completed")
                /\ txn' = [txn EXCEPT ![t] = TRUE]
                /\ journal' = [open |-> TRUE, entries |-> entries,
                               history |-> history, nextId |-> nextId]
                /\ UNCHANGED <<stations, nextId, now, resp, cap, history_ok>>

\* from the UPDATE to `finished` to the commit
finish_customer_finished(t) ==
    /\ pc[t] = "completed"
    /\ entries' = FinishCompletedOf(entries, sel[t].customer_number)
    /\ history' = log_to_history(history, sel[t].customer_number,
                      sel[t].station_id, stations[sel[t].station_id].name,
                      "finished", "finished")
    /\ resp' = [resp EXCEPT ![t] =
                  Response("finish_customer", "ok", sel[t].customer_number, "")]
    /\ pc' = [pc EXCEPT ![t] = "done"]
    /\ sel' = [sel EXCEPT ![t] = NoSel]
    /\ txn' = [txn EXCEPT ![t] = FALSE]
    /\ journal' = NoJournal
    /\ UNCHANGED <<stations, nextId, now, lock, cap, history_ok>>

----------------------------------------------------------------------------
(* POST /api/finish-station/release-customer *)

\* variant: only an operator with the finish_operator flag may release
KnownOperator_finish_only(operator_code) ==
    \E o \in Operators : o.code = operator_code /\ o.finish_operator = 1

\* SELECT id FROM operators WHERE code = ?
KnownOperator(operator_code) == \E o \in Operators : o.code = operator_code

\* variant: release_customer takes the entry from `completed`
Releasable_from_completed(e, customer_number) ==
    e.customer_number = customer_number /\ e.status = "completed"

\* the status release_customer requires of the customer's entry
Releasable(e, customer_number) ==
    e.customer_number = customer_number /\ e.status = "finished"

\* variant: the UPDATE to `released` stamps finished_at again
ReleaseFinishedOf_restamps(E, customer_number) ==
    {IF e.customer_number = customer_number /\ e.status = "finished"
     THEN [e EXCEPT !.status = "released", !.released_at = now,
                    !.finished_at = now]
     ELSE e : e \in E}

\* UPDATE ... SET status = 'released' WHERE customer_number = ? AND status = 'finished'
ReleaseFinishedOf(E, customer_number) ==
    {IF Releasable(e, customer_number)
     THEN [e EXCEPT !.status = "released", !.released_at = now]
     ELSE e : e \in E}

release_customer(t, customer_number, operator_code) ==
    /\ pc[t] = "idle"
    /\ IF customer_number = Missing \/ operator_code = ""
       THEN Reject(t, Response("release_customer", "ValidationError", NULL, ""))
       ELSE LockFree /\
            IF ~KnownOperator(operator_code)
       THEN Fail(t, Response("release_customer", "Unauthorized", NULL, ""))
       ELSE IF {e \in entries : Releasable(e, customer_number)} = {}
       THEN Fail(t, Response("release_customer", "NotFinished", NULL, ""))
       ELSE LET station_id ==
                    FirstById({e \in entries :
                                 Releasable(e, customer_number)}).station_id
            IN  Commit(t, Response("release_customer", "ok", customer_number, ""),
                       ReleaseFinishedOf(entries, customer_number),
                       log_to_history(history, customer_number, station_id,
                                      stations[station_id].name,
                                      "released", "released"),
                       nextId)

----------------------------------------------------------------------------
(* POST /api/insert-customer-at-position *)

\* new_position = i + 2 if i >= position - 1 else i + 1
\* variant: the entry at the requested slot is not moved
new_position_after_slot(i, position) == IF i >= position THEN i + 2 ELSE i + 1

new_position(i, position) == IF i >= position - 1 THEN i + 2 ELSE i + 1

\* variant: the waiting entries at or after the slot move down by one
Renumber_shift(E, station_id, position) ==
    {IF e \in WaitingAt(E, station_id) /\ e.position >= position
     THEN [e EXCEPT !.position = e.position + 1]
     ELSE e : e \in E}

\* the loop over enumerate(queue)
Renumber(E, station_id, position) ==
    {IF e \in WaitingAt(E, station_id)
     THEN [e EXCEPT !.position =
             new_position(IndexInOrder(e, WaitingAt(E, station_id)), position)]
     ELSE e : e \in E}

\* the DELETE of the customer's entries at the station of its first active entry
DeleteExisting(E, customer_number) ==
    IF ExistingActive(E, customer_number) = {} THEN E
    ELSE DeleteAtStation(E, customer_number,
                         FirstById(ExistingActive(E, customer_number)).station_id)

insert_customer_at_position(t, station_id, customer_number, position) ==
    /\ pc[t] = "idle"
    /\ IF station_id = Missing \/ customer_number = Missing
       THEN Reject(t, Response("insert_customer_at_position", "ValidationError",
                               NULL, ""))
       ELSE IF position < 1
       THEN Reject(t, Response("insert_customer_at_position", "InvalidPosition",
                               NULL, ""))
       ELSE LockFree /\
            IF station_id \notin DOMAIN stations
       THEN Fail(t, Response("insert_customer_at_position", "NotFound",
                             NULL, ""))
       ELSE LET qs == queue_station_id(station_id)
                E == Renumber(DeleteExisting(entries, customer_number), qs, position)
            IN  Commit(t, Response("insert_customer_at_position", "ok",
                                   customer_number, ""),
                       E \cup {NewEntry(nextId, qs, customer_number, position)},
                       history,
                       nextId + 1)

----------------------------------------------------------------------------
(* POST /api/transfer-to-poked *)

\* SELECT id FROM stations WHERE name = ? LIMIT 1
StationsNamed(name) == {s \in DOMAIN stations : stations[s].name = name}

\* DELETE ... WHERE customer_number = ? AND status IN ('waiting', 'called')
DeleteActive(E, customer_number) ==
    {e \in E : ~(e.customer_number = customer_number /\ e.status \in Active)}

\* queue_entries.position INTEGER DEFAULT 0
DefaultPosition == 0

transfer_to_poked(t, customer_number) ==
    /\ pc[t] = "idle"
    /\ IF customer_number = Missing
       THEN Reject(t, Response("transfer_to_poked", "ValidationError", NULL, ""))
       ELSE LockFree /\
            IF StationsNamed(PokedName) = {}
       THEN Fail(t, Response("transfer_to_poked", "NotFound", NULL, ""))
       ELSE LET poked_station_id ==
                    CHOOSE s \in StationsNamed(PokedName) :
                        \A x \in StationsNamed(PokedName) : s <= x
            IN  Commit(t, Response("transfer_to_poked", "ok", customer_number, ""),
                       DeleteActive(entries, customer_number)
                         \cup {NewEntry(nextId, poked_station_id,
                                        customer_number, DefaultPosition)},
                       log_to_history(history, customer_number, poked_station_id,
                                      PokedHistoryName, "waiting",
                                      "transferred_to_poked"),
                       nextId + 1)

----------------------------------------------------------------------------
(* POST /api/toggle-station-status/<station_id> and                     *)
(* POST /api/admin/toggle-station-visibility/<station_id>               *)

\* UPDATE stations SET is_active = 1 - is_active WHERE id = ?
ToggleActive(S, station_id) ==
    [S EXCEPT ![station_id].is_active = 1 - S[station_id].is_active]

\* the whole handler runs inside `with db_lock`, commit and close included
toggle_station_status(t, station_id, operator_code) ==
    /\ pc[t] = "idle"
    /\ IF operator_code = ""
       THEN Reject(t, Response("toggle_station_status", "ValidationError",
                               NULL, ""))
       ELSE LockFree /\
            IF ~OperatorOfStation(operator_code, station_id)
       THEN Fail(t, Response("toggle_station_status", "Unauthorized", NULL, ""))
       ELSE IF station_id \notin DOMAIN stations
       THEN Fail(t, Response("toggle_station_status", "NotFound", NULL, ""))
       ELSE /\ lock' = t
            /\ pc' = [pc EXCEPT ![t] = "done"]
            /\ stations' = ToggleActive(stations, station_id)
            /\ resp' = [resp EXCEPT ![t] =
                          Response("toggle_station_status", "ok", NULL, "")]
            /\ UNCHANGED <<entries, history, nextId, now, sel, txn, cap, journal, history_ok>>

\* admin_password of config.json, and a password that is not it
AdminPassword == "admin"
Passwords == {AdminPassword, "wrong"}

\* up to new_status = 1 - station['hidden']: the password check and the SELECT,
\* on a connection of its own and without db_lock
toggle_station_visibility_select(t, station_id, password) ==
    /\ pc[t] = "idle"
    /\ IF password # AdminPassword
       THEN Reject(t, Response("toggle_station_visibility", "Unauthorized",
                               NULL, ""))
       ELSE IF station_id \notin DOMAIN stations
       THEN Reject(t, Response("toggle_station_visibility", "NotFound", NULL, ""))
       ELSE /\ pc' = [pc EXCEPT ![t] = "toggling"]
            /\ sel' = [sel EXCEPT ![t] =
                         [NoSel EXCEPT !.station_id = station_id,
                                       !.new_status = 1 - stations[station_id].hidden]]
            /\ UNCHANGED <<stations, entries, history, nextId, now, lock, resp,
                           txn, cap, journal, history_ok>>

\* UPDATE stations SET hidden = ? WHERE id = ?, commit, close: without db_lock
toggle_station_visibility_update(t) ==
    /\ pc[t] = "toggling"
    /\ stations' = [stations EXCEPT ![sel[t].station_id].hidden = sel[t].new_status]
    /\ pc' = [pc EXCEPT ![t] = "done"]
    /\ sel' = [sel EXCEPT ![t] = NoSel]
    /\ resp' = [resp EXCEPT ![t] =
                  Response("toggle_station_visibility", "ok", NULL, "")]
    /\ UNCHANGED <<entries, history, nextId, now, lock, txn, cap, journal, history_ok>>

----------------------------------------------------------------------------
(* GET /api/center-data, /api/stations-list, /api/admin/report: the read *)
(* aggregators.  They take no lock and open no transaction.             *)

RECURSIVE InOrder(_)
\* the rows of S as fetchall() returns them under ORDER BY position, created_at
InOrder(S) ==
    IF S = {} THEN <<>>
    ELSE <<FirstInOrder(S)>> \o InOrder(S \ {FirstInOrder(S)})

\* [row['customer_number'] for row in waiting]
waiting_list(E, station_id) ==
    [i \in 1..Cardinality(WaitingAt(E, station_id)) |->
        InOrder(WaitingAt(E, station_id))[i].customer_number]

\* SELECT customer_number ... WHERE station_id = ? AND status = 'called' LIMIT 1
current_number(E, station_id) ==
    LET called == {e \in E : e.station_id = station_id /\ e.status = "called"}
    IN  IF called = {} THEN NULL ELSE FirstById(called).customer_number

\* COUNT / SUM(CASE WHEN status = ...) over the entries of a station
CountAt(E, station_id, status) ==
    Cardinality({e \in E : e.station_id = station_id /\ e.status = status})

\* the rows of center_data: the stations that are not hidden
center_rows ==
    [s \in {x \in DOMAIN stations : stations[x].hidden = 0} |->
        [current_number |-> current_number(entries, s),
         waiting_list |-> waiting_list(entries, queue_station_id(s)),
         is_active |-> stations[s].is_active]]

\* the rows of stations_list: the stations that are neither hidden nor
\* restricted and are ungrouped or the MIN(id) of their group
stations_list_rows ==
    [s \in {x \in DOMAIN stations :
               /\ stations[x].hidden = 0
               /\ stations[x].restricted = 0
               /\ \/ stations[x].queue_group_id = NoGroup
                  \/ \A y \in DOMAIN stations :
                        stations[y].queue_group_id = stations[x].queue_group_id
                          => x <= y} |->
        [waiting_count |-> CountAt(entries, queue_station_id(s), "waiting")]]

\* the rows of admin_report: every station
report_rows ==
    [s \in DOMAIN stations |->
        LET qs == queue_station_id(s)
        IN  [waiting |-> CountAt(entries, qs, "waiting"),
             called |-> CountAt(entries, qs, "called"),
             finished |-> CountAt(entries, qs, "finished"),
             total |-> CountAt(entries, qs, "waiting")
                         + CountAt(entries, qs, "called")
                         + CountAt(entries, qs, "finished"),
             current_number |-> current_number(entries, qs)]]

\* a read aggregator answers with its rows and writes nothing
Read(t, r) ==
    /\ pc[t] = "idle"
    /\ pc' = [pc EXCEPT ![t] = "done"]
    /\ resp' = [resp EXCEPT ![t] = r]
    /\ UNCHANGED <<stations, entries, history, nextId, now, lock, sel, txn, cap, journal, history_ok>>

center_data(t) == Read(t, RowsResponse("center_data", center_rows))

stations_list(t) == Read(t, RowsResponse("stations_list", stations_list_rows))

admin_report(t) == Read(t, RowsResponse("admin_report", report_rows))

----------------------------------------------------------------------------
(* PUT and DELETE /api/admin/entries *)

\* UPDATE queue_entries SET customer_number = ?, status = ? / customer_number
\* = ? / status = ? / station_id = ? WHERE id = ?: the first branch of the
\* if/elif chain whose fields the request carries
UpdateFields(e, customer_number, status, station_id) ==
    IF customer_number # Missing /\ status # ""
    THEN [e EXCEPT !.customer_number = customer_number, !.status = status]
    ELSE IF customer_number # Missing
    THEN [e EXCEPT !.customer_number = customer_number]
    ELSE IF status # ""
    THEN [e EXCEPT !.status = status]
    ELSE [e EXCEPT !.station_id = station_id]

update_entry(t, entry_id, customer_number, status, station_id) ==
    /\ pc[t] = "idle"
    /\ IF entry_id = Missing
       THEN Reject(t, Response("update_entry", "ValidationError", NULL, ""))
       ELSE LockFree /\
            IF {e \in entries : e.id = entry_id} = {}
       THEN Fail(t, Response("update_entry", "NotFound", NULL, ""))
       ELSE IF customer_number = Missing /\ status = "" /\ station_id = Missing
       THEN Fail(t, Response("update_entry", "ValidationError", NULL, ""))
       ELSE Commit(t, Response("update_entry", "ok", NULL, ""),
                   {IF e.id = entry_id
                    THEN UpdateFields(e, customer_number, status, station_id)
                    ELSE e : e \in entries},
                   history, nextId)

\* DELETE FROM queue_entries WHERE id = ?
delete_entry(t, entry_id) ==
    /\ pc[t] = "idle"
    /\ LockFree
    /\ Commit(t, Response("delete_entry", "ok", NULL, ""),
              {e \in entries : e.id # entry_id}, history, nextId)

----------------------------------------------------------------------------
(* `except Exception` of the handlers: a statement on the store raises. *)

StorageError(op) == Response(op, "StorageError", NULL, "")

\* the exception leaves `with db_lock`; `open` tells whether the statement
\* that raised came after the connection's transaction had begun
Raise(t, r, open) ==
    /\ lock' = t
    /\ pc' = [pc EXCEPT ![t] = "done"]
    /\ resp' = [resp EXCEPT ![t] = r]
    /\ txn' = [txn EXCEPT ![t] = open]
    /\ UNCHANGED <<stations, entries, history, nextId, now, sel, cap, journal, history_ok>>

\* add_entry: BEGIN IMMEDIATE or a later statement raises; the rollback is
\* in the `except` clause, after `with db_lock`
add_entry_except(t) ==
    /\ pc[t] = "idle"
    /\ LockFree
    /\ \E open \in BOOLEAN : Raise(t, StorageError("add_entry"), open)

\* call_next_customer: a SELECT raises (no transaction yet), or the UPDATE
\* that opens the transaction or a later statement does
call_next_customer_except(t) ==
    \/ /\ pc[t] = "idle"
       /\ LockFree
       /\ Raise(t, StorageError("call_next"), FALSE)
    \/ /\ pc[t] = "selected"
       /\ \E open \in BOOLEAN : Raise(t, StorageError("call_next"), open)

\* finish_customer: the SELECT or the first UPDATE raises
finish_customer_except(t) ==
    /\ pc[t] = "idle"
    /\ LockFree
    /\ \E open \in BOOLEAN : Raise(t, StorageError("finish_customer"), open)

\* release_customer: a SELECT or the UPDATE raises
release_customer_except(t) ==
    /\ pc[t] = "idle"
    /\ LockFree
    /\ \E open \in BOOLEAN : Raise(t, StorageError("release_customer"), open)

\* transfer_to_poked: the SELECT, the DELETE or a later statement raises
transfer_to_poked_except(t) ==
    /\ pc[t] = "idle"
    /\ LockFree
    /\ \E open \in BOOLEAN : Raise(t, StorageError("transfer_to_poked"), open)

\* insert_customer_at_position: `try` is inside `with db_lock`, so the
\* rollback and the close are done before the lock is released
insert_customer_at_position_except(t) ==
    /\ pc[t] = "idle"
    /\ LockFree
    /\ Raise(t, StorageError("insert_customer_at_position"), FALSE)

\* toggle_station_status: `try` is inside `with db_lock` as well
toggle_station_status_except(t) ==
    /\ pc[t] = "idle"
    /\ LockFree
    /\ Raise(t, StorageError("toggle_station_status"), FALSE)

----------------------------------------------------------------------------
(* A statement raises after earlier statements of the transaction have  *)
(* written rows: the rows are there for the connection until rollback.  *)

Store(E, h, id) == [entries |-> E, history |-> h, nextId |-> id]

\* add_entry after the DELETE of the transfer, after the INSERT, after
\* log_to_history
add_entry_partial(station_id, customer_number, transfer) ==
    LET held == ExistingActive(entries, customer_number)
        qs == queue_station_id(station_id)
        E == IF held = {} THEN entries
             ELSE DeleteAtStation(entries, customer_number,
                                  FirstById(held).station_id)
        added == E \cup {NewEntry(nextId, qs, customer_number,
                                  max_position(E, qs) + 1)}
    IN  IF \/ AlreadyInQueue(entries, qs, customer_number)
           \/ (held # {} /\ ~transfer)
        THEN {}
        ELSE {Store(E, history, nextId),
              Store(added, history, nextId + 1),
              Store(added,
                    log_to_history(history, customer_number, qs,
                                   stations[qs].name, "waiting", "added"),
                    nextId + 1)}

\* call_next_customer after each of its two UPDATEs, after log_to_history,
\* after the DELETE
call_next_customer_partial(t) ==
    LET s == sel[t].station_id
        completed == CompleteCalledAt(entries, s)
        called == CallEntry(completed, sel[t].id, s)
        logged == log_to_history(history, sel[t].customer_number, s,
                                 stations[s].name, "called", "called")
    IN  {Store(completed, history, nextId),
         Store(called, history, nextId),
         Store(called, logged, nextId),
         Store(DeleteWaitingElsewhere(called, sel[t].customer_number, s),
               logged, nextId)}

\* the loop over enumerate(queue) after n of its UPDATEs
RenumberUpTo(E, station_id, position, n) ==
    {IF e \in WaitingAt(E, station_id)
        /\ IndexInOrder(e, WaitingAt(E, station_id)) < n
     THEN [e EXCEPT !.position =
             new_position(IndexInOrder(e, WaitingAt(E, station_id)), position)]
     ELSE e : e \in E}

\* insert_customer_at_position after the DELETE, inside and after the
\* renumbering, after the INSERT
insert_customer_at_position_partial(station_id, customer_number, position) ==
    LET qs == queue_station_id(station_id)
        E == DeleteExisting(entries, customer_number)
        n == Cardinality(WaitingAt(E, qs))
    IN  {Store(RenumberUpTo(E, qs, position, i), history, nextId) : i \in 0..n}
          \cup {Store(Renumber(E, qs, position)
                        \cup {NewEntry(nextId, qs, customer_number, position)},
                      history, nextId + 1)}

\* finish_customer after the UPDATE to `finished`, after the second
\* log_to_history (its first UPDATE and log are the step finish_customer)
finish_customer_partial(t) ==
    LET finished == FinishCompletedOf(entries, sel[t].customer_number)
    IN  {Store(entries, history, nextId),
         Store(finished, history, nextId),
         Store(finished,
               log_to_history(history, sel[t].customer_number,
                              sel[t].station_id,
                              stations[sel[t].station_id].name,
                              "finished", "finished"),
               nextId)}

\* release_customer after the UPDATE, after log_to_history
release_customer_partial(customer_number) ==
    LET held == {e \in entries : Releasable(e, customer_number)}
        released == ReleaseFinishedOf(entries, customer_number)
    IN  IF held = {} THEN {}
        ELSE {Store(released, history, nextId),
              Store(released,
                    log_to_history(history, customer_number,
                                   FirstById(held).station_id,
                                   stations[FirstById(held).station_id].name,
                                   "released", "released"),
                    nextId)}

\* transfer_to_poked after the DELETE, after the INSERT, after log_to_history
transfer_to_poked_partial(customer_number) ==
    IF StationsNamed(PokedName) = {} THEN {}
    ELSE LET poked_station_id ==
                 CHOOSE s \in StationsNamed(PokedName) :
                     \A x \in StationsNamed(PokedName) : s <= x
             deleted == DeleteActive(entries, customer_number)
             added == deleted \cup {NewEntry(nextId, poked_station_id,
                                             customer_number, DefaultPosition)}
         IN  {Store(deleted, history, nextId),
              Store(added, history, nextId + 1),
              Store(added,
                    log_to_history(history, customer_number, poked_station_id,
                                   PokedHistoryName, "waiting",
                                   "transferred_to_poked"),
                    nextId + 1)}

\* the statement after one of these partial stores raises; a transaction
\* that has no journal yet keeps the store it started from
Interrupt(t, op, partial) ==
    /\ \E p \in partial :
          /\ p.nextId <= cap.ids + 1
          /\ Len(p.history) <= cap.history
          /\ entries' = p.entries
          /\ history' = p.history
          /\ nextId' = p.nextId
    /\ journal' = IF journal.open THEN journal
                  ELSE [open |-> TRUE, entries |-> entries,
                        history |-> history, nextId |-> nextId]
    /\ lock' = t
    /\ pc' = [pc EXCEPT ![t] = "raised"]
    /\ resp' = [resp EXCEPT ![t] = StorageError(op)]
    /\ txn' = [txn EXCEPT ![t] = TRUE]
    /\ UNCHANGED <<stations, now, sel, cap, history_ok>>

add_entry_interrupted(t, station_id, customer_number, transfer) ==
    /\ pc[t] = "idle"
    /\ LockFree
    /\ station_id \in DOMAIN stations
    /\ Interrupt(t, "add_entry",
                 add_entry_partial(station_id, customer_number, transfer))

call_next_customer_interrupted(t) ==
    /\ pc[t] = "selected"
    /\ Interrupt(t, "call_next", call_next_customer_partial(t))

insert_customer_at_position_interrupted(t, station_id, customer_number, position) ==
    /\ pc[t] = "idle"
    /\ LockFree
    /\ station_id \in DOMAIN stations
    /\ position >= 1
    /\ Interrupt(t, "insert_customer_at_position",
                 insert_customer_at_position_partial(station_id, customer_number,
                                                     position))

finish_customer_interrupted(t) ==
    /\ pc[t] = "completed"
    /\ Interrupt(t, "finish_customer", finish_customer_partial(t))

release_customer_interrupted(t, customer_number, operator_code) ==
    /\ pc[t] = "idle"
    /\ LockFree
    /\ KnownOperator(operator_code)
    /\ Interrupt(t, "release_customer", release_customer_partial(customer_number))

transfer_to_poked_interrupted(t, customer_number) ==
    /\ pc[t] = "idle"
    /\ LockFree
    /\ Interrupt(t, "transfer_to_poked", transfer_to_poked_partial(customer_number))

\* variant: the handler gives up without rollback and the rows written so
\* far are committed
rollback_commits(t) ==
    /\ pc[t] = "raised"
    /\ journal' = NoJournal
    /\ pc' = [pc EXCEPT ![t] = "done"]
    /\ sel' = [sel EXCEPT ![t] = NoSel]
    /\ UNCHANGED <<stations, entries, history, nextId, now, lock, resp, txn, cap,
                   history_ok>>

\* conn.rollback() of the `except` clause: the store is again the one the
\* transaction started from; only insert_customer_at_position has closed its
\* connection by the time it leaves `with db_lock`
rollback(t) ==
    /\ pc[t] = "raised"
    /\ entries' = journal.entries
    /\ history' = journal.history
    /\ nextId' = journal.nextId
    /\ journal' = NoJournal
    /\ pc' = [pc EXCEPT ![t] = "done"]
    /\ sel' = [sel EXCEPT ![t] = NoSel]
    /\ txn' = [txn EXCEPT ![t] = resp[t].op # "insert_customer_at_position"]
    /\ UNCHANGED <<stations, now, lock, resp, cap, history_ok>>

----------------------------------------------------------------------------
(* The end of a handler, the clock, the specification. *)

\* variant: only a successful return releases the lock
handler_return_on_success(t) ==
    /\ pc[t] = "done"
    /\ pc' = [pc EXCEPT ![t] = IF txn[t] THEN "closing" ELSE "idle"]
    /\ resp' = [resp EXCEPT ![t] = NoResp]
    /\ lock' = IF lock = t /\ resp[t].result = "ok" THEN NoThread ELSE lock
    /\ UNCHANGED <<stations, entries, history, nextId, now, sel, txn, cap, journal, history_ok>>

\* leaving `with db_lock` with the return value: the lock is released; a
\* transaction that is still open is left to the `finally` clause
handler_return(t) ==
    /\ pc[t] = "done"
    /\ pc' = [pc EXCEPT ![t] = IF txn[t] THEN "closing" ELSE "idle"]
    /\ resp' = [resp EXCEPT ![t] = NoResp]
    /\ lock' = IF lock = t THEN NoThread ELSE lock
    /\ UNCHANGED <<stations, entries, history, nextId, now, sel, txn, cap, journal, history_ok>>

\* `finally: conn.close()` outside `with db_lock`: the open transaction is
\* rolled back
conn_close(t) ==
    /\ pc[t] = "closing"
    /\ pc' = [pc EXCEPT ![t] = "idle"]
    /\ txn' = [txn EXCEPT ![t] = FALSE]
    /\ UNCHANGED <<stations, entries, history, nextId, now, lock, sel, resp, cap, journal, history_ok>>

\* CURRENT_TIMESTAMP moves on to the next second
TickTo(limit) ==
    /\ now < limit
    /\ now' = now + 1
    /\ UNCHANGED <<stations, entries, history, nextId, lock, pc, sel, resp, txn, cap, journal, history_ok>>

Tick == TickTo(MaxTime)

\* well-formed requests: a station of the configuration, a customer number,
\* a position >= 1, an operator code (known or not)
StationInputs == StationIds
CustomerInputs == Customers
PositionInputs == 1..MaxPosition
CodeInputs == OperatorCodes \ {""}

\* the steps of handler thread t
Step(t) ==
    \/ \E s \in StationInputs, c \in CustomerInputs, transfer \in BOOLEAN :
          add_entry(t, s, c, transfer)
    \/ \E s \in StationInputs, o \in CodeInputs : call_next_select(t, s, o)
    \/ call_next_update(t)
    \/ \E c \in CustomerInputs : finish_customer(t, c)
    \/ finish_customer_finished(t)
    \/ \E c \in CustomerInputs, o \in CodeInputs : release_customer(t, c, o)
    \/ \E s \in StationInputs, c \in CustomerInputs, k \in PositionInputs :
          insert_customer_at_position(t, s, c, k)
    \/ \E c \in CustomerInputs : transfer_to_poked(t, c)
    \/ handler_return(t)
    \/ conn_close(t)

\* one worker: the requests are served one after the other
Workers == {t \in Threads : \A u \in Threads : t <= u}

Next == (\E t \in Workers : Step(t)) \/ Tick

Spec == Init /\ [][Next]_vars

\* NumThreads workers: the requests overlap and meet at db_lock
NextConcurrent == (\E t \in Threads : Step(t)) \/ Tick

SpecConcurrent == Init /\ [][NextConcurrent]_vars

\* one customer and one worker: Enqueue, CallNext, FinishCustomer and
\* ReleaseCustomer for that customer, with time to spare between them
RoundTripCustomer == CHOOSE c \in Customers : \A x \in Customers : c <= x

StepRoundTrip(t) ==
    \/ \E s \in StationInputs, transfer \in BOOLEAN :
          add_entry(t, s, RoundTripCustomer, transfer)
    \/ \E s \in StationInputs, o \in CodeInputs : call_next_select(t, s, o)
    \/ call_next_update(t)
    \/ finish_customer(t, RoundTripCustomer)
    \/ finish_customer_finished(t)
    \/ \E o \in CodeInputs : release_customer(t, RoundTripCustomer, o)
    \/ handler_return(t)
    \/ conn_close(t)

TickRoundTrip == TickTo(MaxRoundTripTime)

NextRoundTrip == (\E t \in Workers : StepRoundTrip(t)) \/ TickRoundTrip

SpecRoundTrip == Init /\ [][NextRoundTrip]_vars

\* one worker and the handlers that touch waiting entries, with more
\* customers, entry ids and positions, all within one second of the clock
QueueCustomers == 1..MaxQueueCustomer
QueuePositions == 1..MaxQueuePosition

InitQueue == Start(Configs, MaxQueueEntryId, MaxQueueHistory)

StepQueue(t) ==
    \/ \E s \in StationInputs, c \in QueueCustomers, transfer \in BOOLEAN :
          add_entry(t, s, c, transfer)
    \/ \E s \in StationInputs, o \in CodeInputs : call_next_select(t, s, o)
    \/ call_next_update(t)
    \/ \E s \in StationInputs, c \in QueueCustomers, k \in QueuePositions :
          insert_customer_at_position(t, s, c, k)
    \/ \E c \in QueueCustomers : transfer_to_poked(t, c)
    \/ handler_return(t)
    \/ conn_close(t)

NextQueue == \E t \in Workers : StepQueue(t)

SpecQueue == InitQueue /\ [][NextQueue]_vars

\* one worker, Enqueue and CallNext only, for three customers
InitFifo == Start(Configs, MaxFifoEntryId, MaxFifoHistory)

StepFifo(t) ==
    \/ \E s \in StationInputs, c \in QueueCustomers, transfer \in BOOLEAN :
          add_entry(t, s, c, transfer)
    \/ \E s \in StationInputs, o \in CodeInputs : call_next_select(t, s, o)
    \/ call_next_update(t)
    \/ handler_return(t)
    \/ conn_close(t)

SpecFifo == InitFifo /\ [][(\E t \in Workers : StepFifo(t)) \/ Tick]_vars

\* one worker, the handlers that resolve a queue station and the read
\* aggregators, over every assignment of the stations to the groups "G" and
\* "H" or to no group
GroupIds == {NoGroup, "G", "H"}

GroupedConfig(poked, group) ==
    [s \in StationIds |->
        [StationConfig(poked)[s] EXCEPT !.queue_group_id = group[s]]]

InitGroups ==
    Start({GroupedConfig(poked, group) :
             poked \in PokedCandidates, group \in [StationIds -> GroupIds]},
          MaxGroupsEntryId, MaxGroupsHistory)

StepGroups(t) ==
    \/ \E s \in StationInputs, c \in CustomerInputs, transfer \in BOOLEAN :
          add_entry(t, s, c, transfer)
    \/ \E s \in StationInputs, o \in CodeInputs : call_next_select(t, s, o)
    \/ call_next_update(t)
    \/ \E s \in StationInputs, c \in CustomerInputs, k \in PositionInputs :
          insert_customer_at_position(t, s, c, k)
    \/ center_data(t)
    \/ stations_list(t)
    \/ admin_report(t)
    \/ handler_return(t)
    \/ conn_close(t)

NextGroups == \E t \in Workers : StepGroups(t)

SpecGroups == InitGroups /\ [][NextGroups]_vars

\* one worker, Enqueue, CallNext and TransferToNamedStation, the stations
\* grouped in every way into "G" or left ungrouped
InitTransfer ==
    Start({GroupedConfig(poked, group) :
             poked \in PokedCandidates, group \in [StationIds -> {NoGroup, "G"}]},
          MaxTransferEntryId, MaxTransferHistory)

StepTransfer(t) ==
    \/ \E s \in StationInputs, c \in CustomerInputs, transfer \in BOOLEAN :
          add_entry(t, s, c, transfer)
    \/ \E s \in StationInputs, o \in CodeInputs : call_next_select(t, s, o)
    \/ call_next_update(t)
    \/ \E c \in CustomerInputs : transfer_to_poked(t, c)
    \/ handler_return(t)
    \/ conn_close(t)

SpecTransfer == InitTransfer /\ [][(\E t \in Workers : StepTransfer(t)) \/ Tick]_vars

\* NumThreads workers, one customer: every handler that writes, the two
\* station toggles and the read aggregators
ToggleCustomers == 1..MaxToggleCustomer

InitToggle == Start(Configs, MaxToggleEntryId, MaxToggleHistory)

StepToggle(t) ==
    \/ \E s \in StationInputs, c \in ToggleCustomers, transfer \in BOOLEAN :
          add_entry(t, s, c, transfer)
    \/ \E s \in StationInputs, o \in CodeInputs : call_next_select(t, s, o)
    \/ call_next_update(t)
    \/ \E s \in StationInputs, c \in ToggleCustomers, k \in PositionInputs :
          insert_customer_at_position(t, s, c, k)
    \/ \E c \in ToggleCustomers : transfer_to_poked(t, c)
    \/ \E s \in StationInputs, o \in CodeInputs : toggle_station_status(t, s, o)
    \/ \E s \in StationInputs, p \in Passwords :
          toggle_station_visibility_select(t, s, p)
    \/ toggle_station_visibility_update(t)
    \/ center_data(t)
    \/ stations_list(t)
    \/ admin_report(t)
    \/ handler_return(t)
    \/ conn_close(t)

NextToggle == \E t \in Threads : StepToggle(t)

SpecToggle == InitToggle /\ [][NextToggle]_vars

\* NumThreads workers, one customer: every handler that takes db_lock, on its
\* success paths, its error returns and its `except` clause
InitFaults == Start(Configs, MaxFaultsEntryId, MaxFaultsHistory)

StepFaults(t) ==
    \/ \E s \in StationInputs, c \in ToggleCustomers, transfer \in BOOLEAN :
          add_entry(t, s, c, transfer)
    \/ \E s \in StationInputs, o \in CodeInputs : call_next_select(t, s, o)
    \/ call_next_update(t)
    \/ \E c \in ToggleCustomers : finish_customer(t, c)
    \/ finish_customer_finished(t)
    \/ \E c \in ToggleCustomers, o \in CodeInputs : release_customer(t, c, o)
    \/ \E s \in StationInputs, c \in ToggleCustomers, k \in PositionInputs :
          insert_customer_at_position(t, s, c, k)
    \/ \E c \in ToggleCustomers : transfer_to_poked(t, c)
    \/ \E s \in StationInputs, o \in CodeInputs : toggle_station_status(t, s, o)
    \/ add_entry_except(t)
    \/ call_next_customer_except(t)
    \/ finish_customer_except(t)
    \/ release_customer_except(t)
    \/ transfer_to_poked_except(t)
    \/ insert_customer_at_position_except(t)
    \/ toggle_station_status_except(t)
    \/ handler_return(t)
    \/ conn_close(t)

NextFaults == \E t \in Threads : StepFaults(t)

SpecFaults == InitFaults /\ [][NextFaults]_vars

\* fair scheduling: a request that has started keeps being run, so the next
\* step of its handler is eventually taken
Running(t) == pc[t] # "idle" /\ StepFaults(t)

SpecFaultsFair == SpecFaults /\ \A t \in Threads : WF_vars(Running(t))

\* one worker, the operations that write history rows, and a history table
\* whose INSERT fails at times
history_insert_fails ==
    /\ history_ok' = ~history_ok
    /\ UNCHANGED <<stations, entries, history, nextId, now, lock, pc, sel, resp,
                   txn, cap, journal>>

InitHistory == Start(Configs, MaxEntryId, MaxHistoryLost)

StepHistory(t) ==
    \/ \E s \in StationInputs, c \in CustomerInputs, transfer \in BOOLEAN :
          add_entry(t, s, c, transfer)
    \/ \E s \in StationInputs, o \in CodeInputs : call_next_select(t, s, o)
    \/ call_next_update(t)
    \/ \E c \in CustomerInputs : finish_customer(t, c)
    \/ finish_customer_finished(t)
    \/ \E c \in CustomerInputs, o \in CodeInputs : release_customer(t, c, o)
    \/ \E c \in CustomerInputs : transfer_to_poked(t, c)
    \/ handler_return(t)
    \/ conn_close(t)

NextHistory == (\E t \in Workers : StepHistory(t)) \/ history_insert_fails

SpecHistory == InitHistory /\ [][NextHistory]_vars

\* one worker: the operations of the operators and of the kiosk together with
\* the admin's edit and delete of queue entries
EntryIdInputs == 1..MaxAdminEntryId
AdminStatusInputs == {"", "waiting", "finished"}
AdminStationInputs == {Missing, 2}
AdminCustomerInputs == {Missing, MaxCustomer}

InitAdmin == Start(Configs, MaxAdminEntryId, MaxAdminHistory)

StepAdmin(t) ==
    \/ \E s \in StationInputs, c \in ToggleCustomers, transfer \in BOOLEAN :
          add_entry(t, s, c, transfer)
    \/ \E s \in StationInputs, o \in CodeInputs : call_next_select(t, s, o)
    \/ call_next_update(t)
    \/ \E c \in ToggleCustomers : finish_customer(t, c)
    \/ finish_customer_finished(t)
    \/ \E c \in ToggleCustomers, o \in CodeInputs : release_customer(t, c, o)
    \/ \E s \in StationInputs, c \in ToggleCustomers, k \in PositionInputs :
          insert_customer_at_position(t, s, c, k)
    \/ \E c \in ToggleCustomers : transfer_to_poked(t, c)
    \/ \E id \in EntryIdInputs, c \in AdminCustomerInputs,
          status \in AdminStatusInputs, s \in AdminStationInputs :
          update_entry(t, id, c, status, s)
    \/ \E id \in EntryIdInputs : delete_entry(t, id)
    \/ handler_return(t)
    \/ conn_close(t)

NextAdmin == \E t \in Workers : StepAdmin(t)

SpecAdmin == InitAdmin /\ [][NextAdmin]_vars

\* one worker: every operation that writes queue entries, completed or cut
\* short by a statement that raises, and a history table whose INSERT fails
\* at times
InitRollback == Start(Configs, MaxRollbackEntryId, MaxRollbackHistory)

\* the stations the requests of this run name: an ungrouped one and the
\* first of a group
RollbackStations == {1, 2}

StepRollback(t) ==
    \/ \E s \in RollbackStations, c \in QueueCustomers, transfer \in BOOLEAN :
          \/ add_entry(t, s, c, transfer)
          \/ add_entry_interrupted(t, s, c, transfer)
    \/ \E s \in RollbackStations, o \in CodeInputs : call_next_select(t, s, o)
    \/ call_next_update(t)
    \/ call_next_customer_interrupted(t)
    \/ \E c \in QueueCustomers : finish_customer(t, c)
    \/ finish_customer_finished(t)
    \/ finish_customer_interrupted(t)
    \/ \E c \in QueueCustomers, o \in CodeInputs :
          \/ release_customer(t, c, o)
          \/ release_customer_interrupted(t, c, o)
    \/ \E s \in RollbackStations, c \in QueueCustomers, k \in PositionInputs :
          \/ insert_customer_at_position(t, s, c, k)
          \/ insert_customer_at_position_interrupted(t, s, c, k)
    \/ \E c \in QueueCustomers :
          \/ transfer_to_poked(t, c)
          \/ transfer_to_poked_interrupted(t, c)
    \/ rollback(t)
    \/ handler_return(t)
    \/ conn_close(t)

NextRollback == (\E t \in Workers : StepRollback(t)) \/ history_insert_fails

SpecRollback == InitRollback /\ [][NextRollback]_vars

\* one worker and requests that may be malformed: a missing station, customer
\* or operator code, a station that does not exist, an unknown operator, a
\* wrong admin password, a position below 1
InvalidStationInputs == StationIds \cup {Missing, UnknownStation}
InvalidCustomerInputs == ToggleCustomers \cup {Missing}
InvalidPositionInputs == 0..MaxPosition

InitInvalid == Start(Configs, MaxInvalidEntryId, MaxInvalidHistory)

StepInvalid(t) ==
    \/ \E s \in InvalidStationInputs, c \in InvalidCustomerInputs,
          transfer \in BOOLEAN : add_entry(t, s, c, transfer)
    \/ \E s \in StationIds \cup {UnknownStation}, o \in OperatorCodes :
          call_next_select(t, s, o)
    \/ call_next_update(t)
    \/ \E c \in InvalidCustomerInputs : finish_customer(t, c)
    \/ finish_customer_finished(t)
    \/ \E c \in InvalidCustomerInputs, o \in OperatorCodes :
          release_customer(t, c, o)
    \/ \E s \in InvalidStationInputs, c \in InvalidCustomerInputs,
          k \in InvalidPositionInputs : insert_customer_at_position(t, s, c, k)
    \/ \E c \in InvalidCustomerInputs : transfer_to_poked(t, c)
    \/ \E s \in {1, UnknownStation}, o \in OperatorCodes :
          toggle_station_status(t, s, o)
    \/ \E s \in {1, UnknownStation}, p \in Passwords :
          toggle_station_visibility_select(t, s, p)
    \/ toggle_station_visibility_update(t)
    \/ \E id \in {Missing} \cup 1..(MaxInvalidEntryId + 1),
          status \in {"", "waiting"} :
          update_entry(t, id, Missing, status, Missing)
    \/ handler_return(t)
    \/ conn_close(t)

NextInvalid == \E t \in Workers : StepInvalid(t)

SpecInvalid == InitInvalid /\ [][NextInvalid]_vars

\* one worker: Enqueue, CallNext and TransferToNamedStation, and an admin who
\* edits the customer number or the station of a queue entry
InitEdit == Start(Configs, MaxEditEntryId, MaxEditHistory)

StepEdit(t) ==
    \/ \E s \in StationInputs, c \in CustomerInputs, transfer \in BOOLEAN :
          add_entry(t, s, c, transfer)
    \/ \E s \in StationInputs, o \in CodeInputs : call_next_select(t, s, o)
    \/ call_next_update(t)
    \/ \E c \in CustomerInputs : transfer_to_poked(t, c)
    \/ \E id \in 1..MaxEditEntryId, c \in {Missing} \cup CustomerInputs,
          s \in {Missing} \cup StationInputs : update_entry(t, id, c, "", s)
    \/ handler_return(t)
    \/ conn_close(t)

NextEdit == \E t \in Workers : StepEdit(t)

SpecEdit == InitEdit /\ [][NextEdit]_vars

\* one worker and one customer who comes back after having been served:
\* Enqueue, CallNext, FinishCustomer, then Enqueue and InsertAtPosition again
InitReturn == Start(Configs, MaxReturnEntryId, MaxReturnHistory)

StepReturn(t) ==
    \/ \E s \in StationInputs, c \in ToggleCustomers, transfer \in BOOLEAN :
          add_entry(t, s, c, transfer)
    \/ \E s \in StationInputs, o \in CodeInputs : call_next_select(t, s, o)
    \/ call_next_update(t)
    \/ \E c \in ToggleCustomers : finish_customer(t, c)
    \/ finish_customer_finished(t)
    \/ \E s \in StationInputs, c \in ToggleCustomers, k \in PositionInputs :
          insert_customer_at_position(t, s, c, k)
    \/ handler_return(t)
    \/ conn_close(t)

NextReturn == \E t \in Workers : StepReturn(t)

SpecReturn == InitReturn /\ [][NextReturn]_vars

\* one worker and customers who come back after having been served: Enqueue,
\* CallNext, FinishCustomer and ReleaseCustomer over several visits
InitVisits == Start(Configs, MaxVisitsEntryId, MaxVisitsHistory)

StepVisits(t) ==
    \/ \E s \in RollbackStations, c \in CustomerInputs, transfer \in BOOLEAN :
          add_entry(t, s, c, transfer)
    \/ \E s \in RollbackStations, o \in CodeInputs : call_next_select(t, s, o)
    \/ call_next_update(t)
    \/ \E c \in CustomerInputs : finish_customer(t, c)
    \/ finish_customer_finished(t)
    \/ \E c \in CustomerInputs, o \in CodeInputs : release_customer(t, c, o)
    \/ handler_return(t)
    \/ conn_close(t)

SpecVisits == InitVisits /\ [][(\E t \in Workers : StepVisits(t)) \/ Tick]_vars

----------------------------------------------------------------------------
(* Vocabulary of the properties. *)

\* the stations that share the waiting line of station s
GroupStations(s) ==
    IF stations[s].queue_group_id = NoGroup THEN {s}
    ELSE {x \in StationIds :
            stations[x].queue_group_id = stations[s].queue_group_id}

\* the station that holds the waiting line of station s
CanonicalStation(s) ==
    CHOOSE x \in GroupStations(s) : \A y \in GroupStations(s) : x <= y

ActiveOf(E, c) == {e \in E : e.customer_number = c /\ e.status \in {"waiting", "called"}}

WaitingInGroup(E, s) ==
    {e \in E : e.status = "waiting" /\ e.station_id \in GroupStations(s)}

Assigned(o, s) == \E op \in Operators : op.code = o /\ op.station_id = s

\* thread t returns from a successful call_next_customer in this step
CallReturns(t) == pc[t] = "selected" /\ pc'[t] = "done"

StoreUnchanged == entries' = entries /\ history' = history /\ stations' = stations

----------------------------------------------------------------------------
(* Properties. *)

\* C1: whatever sequence of Enqueue (with or without allow_transfer), CallNext,
\* InsertAtPosition, FinishCustomer, ReleaseCustomer and TransferToNamedStation
\* calls has run, every customer number has at most one entry with status
\* waiting or called across all stations.
C1_OneActiveEntryPerCustomer ==
    \A c \in Customers : Cardinality(ActiveOf(entries, c)) <= 1

\* an Enqueue of a customer that is active in another queue has been refused,
\* and the customer still has its one active entry
C1_Witness ==
    \E t \in Threads :
        /\ resp[t].op = "add_entry"
        /\ resp[t].result = "ConflictAcrossQueues"
        /\ Cardinality(ActiveOf(entries, resp[t].customer_number)) = 1

\* C2: a successful CallNext(station, operator) returns the customer of the
\* waiting entry with the smallest (position, created_at) among the waiting
\* entries held by the stations of the calling station's queue group (by the
\* station itself when it has no group).
C2_CallNextReturnsSmallest ==
    [][\A t \in Threads :
         CallReturns(t) =>
           \E e \in WaitingInGroup(entries, sel[t].station_id) :
              /\ e.customer_number = resp'[t].customer_number
              /\ resp'[t].result = "ok"
              /\ \E x \in entries' : x.id = e.id /\ x.status = "called"
              /\ \A x \in WaitingInGroup(entries, sel[t].station_id) :
                    \/ e.position < x.position
                    \/ e.position = x.position /\ e.created_at <= x.created_at]_vars

\* a CallNext has returned a customer whose entry was created after an entry
\* that is still waiting in the same line
C2_Witness ==
    \E t \in Threads, e \in entries, w \in entries :
        /\ resp[t].op = "call_next" /\ resp[t].result = "ok"
        /\ e.status = "called" /\ e.customer_number = resp[t].customer_number
        /\ w.status = "waiting" /\ w.station_id \in GroupStations(e.station_id)
        /\ w.id < e.id

\* C3: CallNext at a station whose queue (group) has no waiting entry fails with
\* QueueEmpty and changes nothing: no entry changes status or station, the entry
\* called at that station stays called, no history record is appended.
C3_QueueEmptyChangesNothing ==
    [][\A t \in Threads, s \in StationIds, o \in CodeInputs :
         (call_next_select(t, s, o) /\ Assigned(o, s)
            /\ WaitingInGroup(entries, s) = {})
         => (resp'[t].result = "QueueEmpty" /\ pc'[t] = "done" /\ StoreUnchanged)]_vars

\* CallNext has failed with QueueEmpty at the ungrouped station while that
\* station has a called entry and the group has a waiting one
C3_Witness ==
    \E t \in Threads, e \in entries, w \in entries :
        /\ resp[t].op = "call_next" /\ resp[t].result = "QueueEmpty"
        /\ e.status = "called" /\ stations[e.station_id].queue_group_id = NoGroup
        /\ w.status = "waiting" /\ stations[w.station_id].queue_group_id # NoGroup
        /\ \A x \in entries : x.status = "waiting" =>
              stations[x.station_id].queue_group_id # NoGroup

\* C4: for any interleaving of concurrent CallNext requests issued from
\* different member stations of one queue group, no two successful requests
\* return the customer of the same waiting entry: every successful CallNext
\* turns an entry that is waiting at that moment into a called one, so each
\* waiting entry is called at most once.
C4_EachWaitingEntryCalledOnce ==
    [][/\ \A t \in Threads :
            CallReturns(t) =>
              /\ \E e \in entries : e.id = sel[t].id /\ e.status = "waiting"
              /\ \E e \in entries' : e.id = sel[t].id /\ e.status = "called"
              /\ \A u \in Threads \ {t} : sel[u].id # sel[t].id
       /\ \A e \in entries, x \in entries' :
            (x.id = e.id /\ x.status = "called" /\ e.status # "called")
              => e.status = "waiting"]_vars

\* two entries of the group's line have been called, one at each member
\* station, and the second call has just returned
C4_Witness ==
    \E t \in Threads, e \in entries, x \in entries :
        /\ resp[t].op = "call_next" /\ resp[t].result = "ok" /\ lock = t
        /\ e.id # x.id
        /\ e.called_at # NULL /\ x.called_at # NULL
        /\ e.station_id # x.station_id
        /\ stations[e.station_id].queue_group_id # NoGroup
        /\ stations[x.station_id].queue_group_id = stations[e.station_id].queue_group_id

\* C5: for two stations B and C of one queue group, Enqueue(B, c) followed by a
\* successful CallNext(C) that returns c leaves c's entry with status called
\* and station_id = C, and leaves no waiting entry for c at any station of the
\* group.
C5_CalledEntryFollowsTheCall ==
    [][\A t \in Threads :
         CallReturns(t) =>
           LET s == sel[t].station_id
               c == resp'[t].customer_number
           IN  /\ \E e \in entries' : /\ e.id = sel[t].id
                                      /\ e.customer_number = c
                                      /\ e.status = "called"
                                      /\ e.station_id = s
               /\ \A e \in entries' :
                    (e.customer_number = c /\ e.station_id \in GroupStations(s))
                      => e.status # "waiting"]_vars

\* customer c was enqueued at the station that holds the group's line and has
\* been called at another station of the group
C5_Witness ==
    \E t \in Threads, e \in entries :
        /\ resp[t].op = "call_next" /\ resp[t].result = "ok"
        /\ e.customer_number = resp[t].customer_number
        /\ e.status = "called"
        /\ e.station_id # CanonicalStation(e.station_id)
        /\ \E i \in 1..Len(history) :
              /\ history[i].action = "added"
              /\ history[i].customer_number = e.customer_number
              /\ history[i].station_id = CanonicalStation(e.station_id)

\* C6: under every engine operation other than AdminEditEntry, each status
\* change of a queue entry is one of waiting->called, called->completed,
\* completed->finished, finished->released: no entry skips a state or moves
\* backward.
StatusChain ==
    { <<"waiting", "called">>, <<"called", "completed">>,
      <<"completed", "finished">>, <<"finished", "released">> }

C6_StatusFollowsTheChain ==
    [][\A e \in entries, x \in entries' :
         (x.id = e.id /\ x.status # e.status)
           => <<e.status, x.status>> \in StatusChain]_vars

\* an entry has reached the last state, and another one was completed by the
\* next call at its station
C6_Witness ==
    /\ \E e \in entries : e.status = "released"
    /\ \E e \in entries : e.status = "completed"

\* the timestamps of an entry in the order of the state machine
Stamps(e) ==
    <<e.created_at, e.called_at, e.completed_at, e.finished_at, e.released_at>>

StatusIndex(status) ==
    CASE status = "waiting" -> 1
      [] status = "called" -> 2
      [] status = "completed" -> 3
      [] status = "finished" -> 4
      [] status = "released" -> 5

\* the timestamps up to the entry's status are set, the later ones are not
StampsMatchStatus(e) ==
    \A i \in 1..5 : (Stamps(e)[i] # NULL) <=> (i <= StatusIndex(e.status))

\* C7 as stated: the round trip Enqueue, CallNext, FinishCustomer,
\* ReleaseCustomer leaves the entry with
\* created_at < called_at < completed_at < finished_at < released_at.
C7_StrictlyIncreasingStamps ==
    \A e \in entries :
        e.status = "released" =>
            /\ e.created_at < e.called_at
            /\ e.called_at < e.completed_at
            /\ e.completed_at < e.finished_at
            /\ e.finished_at < e.released_at

\* C7, amended: the sequence Enqueue, CallNext, FinishCustomer, ReleaseCustomer
\* for one customer drives a single entry through waiting, called, completed,
\* finished, released; each step of the state machine writes the timestamp of
\* the state it enters, which was unset, and no step changes a timestamp that
\* is set; the timestamps never decrease along the state machine:
\* created_at <= called_at <= completed_at <= finished_at <= released_at.
C7_RoundTripStampsOnceAndMonotone ==
    [][/\ \A x \in entries' :
            /\ StampsMatchStatus(x)
            /\ \A i \in 1..5, j \in 1..5 :
                  (i < j /\ Stamps(x)[j] # NULL) => Stamps(x)[i] <= Stamps(x)[j]
       /\ \A e \in entries, x \in entries' :
            x.id = e.id =>
              /\ \A i \in 1..5 : Stamps(e)[i] # NULL => Stamps(x)[i] = Stamps(e)[i]
              /\ x.status # e.status => StatusIndex(x.status) = StatusIndex(e.status) + 1
              /\ x.customer_number = e.customer_number]_vars

\* one entry has made the round trip, the four operations being the only ones
\* that ran, with the clock moving on between them
C7_Witness ==
    \E e \in entries :
        /\ e.status = "released"
        /\ e.created_at < e.called_at
        /\ e.called_at < e.completed_at
        /\ e.completed_at <= e.finished_at
        /\ e.finished_at < e.released_at
        /\ Len(history) = 5
        /\ [i \in 1..5 |-> history[i].action]
             = <<"added", "called", "completed", "finished", "released">>

\* C8: FinishCustomer(c) when c has no entry with status called (c unknown,
\* waiting, completed, finished or released) fails with NotInService and
\* changes no entry and no history record.
C8_NotInServiceChangesNothing ==
    [][\A t \in Threads, c \in Customers :
          (/\ finish_customer(t, c)
           /\ ~ \E e \in entries : e.customer_number = c /\ e.status = "called")
          => /\ resp'[t].result = "NotInService"
             /\ StoreUnchanged]_vars

\* FinishCustomer has been refused while no entry at all is called, one
\* customer is waiting and the other is past service
C8_Witness ==
    \E t \in Threads :
        /\ resp[t].op = "finish_customer"
        /\ resp[t].result = "NotInService"
        /\ \A c \in Customers : \E e \in entries : e.customer_number = c
        /\ \A e \in entries : e.status # "called"
        /\ \E e \in entries : e.status = "waiting"
        /\ \E e \in entries : e.status \in {"finished", "released"}

\* the operator code belongs to some operator
ExistingOperator(o) == \E op \in Operators : op.code = o

FinishedOf(E, c) == {e \in E : e.customer_number = c /\ e.status = "finished"}

\* C9: ReleaseCustomer(c, operator) fails with Unauthorized when the operator
\* code matches no operator, and, the operator being known, with NotFinished
\* when c has no finished entry, both without changing anything; with any
\* existing operator, whatever its station or finish_operator flag, and a
\* finished entry of c, that entry becomes released and a `released` history
\* record is appended.
C9_ReleaseCustomerOutcomes ==
    [][\A t \in Threads, c \in Customers, o \in CodeInputs :
          release_customer(t, c, o) =>
            /\ ~ExistingOperator(o)
                 => resp'[t].result = "Unauthorized" /\ StoreUnchanged
            /\ (ExistingOperator(o) /\ FinishedOf(entries, c) = {})
                 => resp'[t].result = "NotFinished" /\ StoreUnchanged
            /\ (ExistingOperator(o) /\ FinishedOf(entries, c) # {})
                 => /\ resp'[t].result = "ok"
                    /\ \E e \in FinishedOf(entries, c) :
                          [e EXCEPT !.status = "released", !.released_at = now]
                             \in entries'
                    /\ Len(history') = Len(history) + 1
                    /\ SubSeq(history', 1, Len(history)) = history
                    /\ history'[Len(history')].customer_number = c
                    /\ history'[Len(history')].status = "released"
                    /\ history'[Len(history')].action = "released"]_vars

\* a release has just succeeded: the customer's entry is released at the
\* current time and the last history record is its `released` record
C9_Witness ==
    \E t \in Threads :
        /\ resp[t].op = "release_customer"
        /\ resp[t].result = "ok"
        /\ \E e \in entries : /\ e.customer_number = resp[t].customer_number
                              /\ e.status = "released"
                              /\ e.released_at = now
        /\ Len(history) > 0
        /\ history[Len(history)].action = "released"
        /\ history[Len(history)].customer_number = resp[t].customer_number

\* C10: Enqueue(station, c, allow_transfer = true) issued while c is active
\* (waiting or called) in a different queue succeeds and leaves exactly one
\* active entry of c system-wide: a waiting entry held by the queue station
\* that the target station resolves to.
C10_TransferLeavesOneActiveEntry ==
    [][\A t \in Threads, s \in StationIds, c \in Customers :
          (/\ add_entry(t, s, c, TRUE)
           /\ \E e \in ActiveOf(entries, c) : e.station_id \notin GroupStations(s))
          => /\ resp'[t].result = "ok"
             /\ Cardinality(ActiveOf(entries', c)) = 1
             /\ \A e \in ActiveOf(entries', c) :
                   /\ e.status = "waiting"
                   /\ e.station_id = CanonicalStation(s)
                   /\ e \notin entries]_vars

\* the customer was enqueued in one queue and then, still active there,
\* enqueued into another: two `added` records, and only the second entry left
C10_Witness ==
    \E t \in Threads :
        /\ resp[t].op = "add_entry"
        /\ resp[t].result = "ok"
        /\ Len(history) = 2
        /\ history[1].action = "added" /\ history[2].action = "added"
        /\ history[1].customer_number = resp[t].customer_number
        /\ history[2].customer_number = resp[t].customer_number
        /\ history[1].station_id \notin GroupStations(history[2].station_id)
        /\ nextId = 3
        /\ \E e \in entries :
              /\ entries = {e}
              /\ e.id = 2
              /\ e.status = "waiting"
              /\ e.station_id = history[2].station_id

\* C11: Enqueue(station, c, allow_transfer) fails with DuplicateInQueue, for
\* either value of allow_transfer and with no change to the store, whenever c
\* already has a waiting or called entry in the queue that station resolves
\* to: the station itself when ungrouped, the shared line of its queue group
\* when grouped.
C11_DuplicateInQueueRefused ==
    [][\A t \in Threads, s \in StationIds, c \in Customers, tr \in BOOLEAN :
          (/\ add_entry(t, s, c, tr)
           /\ \E e \in ActiveOf(entries, c) : e.station_id \in GroupStations(s))
          => /\ resp'[t].result = "DuplicateInQueue"
             /\ StoreUnchanged]_vars

\* C12: Enqueue(station, c, allow_transfer = false) while c is active in a
\* different queue fails with ConflictAcrossQueues, reports the name of the
\* station that holds c's active entry, and changes nothing in the store.
C12_ConflictAcrossQueuesRefused ==
    [][\A t \in Threads, s \in StationIds, c \in Customers :
          (/\ add_entry(t, s, c, FALSE)
           /\ \E e \in ActiveOf(entries, c) : e.station_id \notin GroupStations(s))
          => /\ resp'[t].result = "ConflictAcrossQueues"
             /\ resp'[t].customer_number = c
             /\ \E e \in ActiveOf(entries, c) :
                   resp'[t].detail = stations[e.station_id].name
             /\ StoreUnchanged]_vars

\* an Enqueue has been refused with the name of station 1 while the customer
\* waits there and another customer is called in the group
C12_Witness ==
    \E t \in Threads :
        /\ resp[t].op = "add_entry"
        /\ resp[t].result = "ConflictAcrossQueues"
        /\ resp[t].detail = stations[1].name
        /\ \E e \in entries : /\ e.customer_number = resp[t].customer_number
                              /\ e.status = "waiting"
                              /\ e.station_id = 1
        /\ \E e \in entries : /\ e.customer_number # resp[t].customer_number
                              /\ e.status = "called"
                              /\ e.station_id \in GroupStations(2)

\* the largest position among the entries of E waiting at station s, 0 if none
LargestWaitingPosition(E, s) ==
    LET P == {e.position : e \in {x \in E : x.station_id = s /\ x.status = "waiting"}}
    IN  IF P = {} THEN 0 ELSE CHOOSE p \in P : \A q \in P : q <= p

\* a comes no later than b in the waiting order (position, created_at)
NoLaterThan(a, b) ==
    \/ a.position < b.position
    \/ a.position = b.position /\ a.created_at <= b.created_at

\* C13: a successful Enqueue(station, c) creates exactly one new entry: status
\* waiting, held by the canonical queue station of the station's group, with
\* position = 1 + the largest position among the entries then waiting at that
\* queue station (1 when none is waiting), so that it is last in the waiting
\* order; and it appends one history record with action `added`.
C13_EnqueueAppendsAtTail ==
    [][\A t \in Threads, s \in StationIds, c \in QueueCustomers, tr \in BOOLEAN :
          (resp'[t].result = "ok" /\ add_entry(t, s, c, tr))
          => /\ \E x \in entries' :
                  /\ entries' \ entries = {x}
                  /\ \A e \in entries : e.id # x.id
                  /\ x.customer_number = c
                  /\ x.status = "waiting"
                  /\ x.station_id = CanonicalStation(s)
                  /\ x.position =
                        1 + LargestWaitingPosition(entries, CanonicalStation(s))
                  /\ \A e \in WaitingInGroup(entries', s) : NoLaterThan(e, x)
             /\ Len(history') = Len(history) + 1
             /\ SubSeq(history', 1, Len(history)) = history
             /\ history'[Len(history')].action = "added"
             /\ history'[Len(history')].customer_number = c]_vars

\* an Enqueue has put its customer behind a waiting entry whose position is
\* above 1: the new entry has position 3 while one other entry waits
C13_Witness ==
    \E t \in Threads :
        /\ resp[t].op = "add_entry"
        /\ resp[t].result = "ok"
        /\ \E x \in entries, e \in entries :
              /\ x.id = nextId - 1
              /\ x.customer_number = resp[t].customer_number
              /\ x.status = "waiting"
              /\ x.position = 3
              /\ e.station_id = x.station_id
              /\ e.status = "waiting"
              /\ e.position = 2
              /\ WaitingAt(entries, x.station_id) = {x, e}
        /\ history[Len(history)].action = "added"

\* the entries of E waiting at station s
WaitingList(E, s) == {e \in E : e.station_id = s /\ e.status = "waiting"}

\* a is read before b from a list ordered by (position, created_at), rows of
\* equal keys coming in the order of their ids
ReadBefore(a, b) ==
    \/ a.position < b.position
    \/ a.position = b.position /\ a.created_at < b.created_at
    \/ a.position = b.position /\ a.created_at = b.created_at /\ a.id < b.id

\* the index, from 1, at which e is read from the list S
ReadIndex(e, S) == 1 + Cardinality({x \in S : ReadBefore(x, e)})

Min(a, b) == IF a <= b THEN a ELSE b

\* C14: after a successful InsertAtPosition(station, C, k) on a queue station
\* with n waiting entries (not counting a removed prior entry of C), reading
\* the waiting list ordered by (position, created_at) yields C at index
\* min(k, n + 1), in particular first when k = 1, and the relative order of
\* all other waiting entries is unchanged.
C14_InsertedAtRequestedIndex ==
    [][\A t \in Threads, s \in StationIds, c \in QueueCustomers, k \in QueuePositions :
          (resp'[t].result = "ok" /\ insert_customer_at_position(t, s, c, k))
          => LET qs == CanonicalStation(s)
                 others == {e \in WaitingList(entries, qs) : e.customer_number # c}
                 after == WaitingList(entries', qs)
             IN  /\ \E x \in after :
                       /\ x.customer_number = c
                       /\ \A e \in entries : e.id # x.id
                       /\ ReadIndex(x, after) = Min(k, Cardinality(others) + 1)
                       /\ {e.id : e \in after} = {e.id : e \in others} \cup {x.id}
                 /\ \A a \in others, b \in others, a2 \in after, b2 \in after :
                       (a2.id = a.id /\ b2.id = b.id)
                       => (ReadBefore(a, b) <=> ReadBefore(a2, b2))]_vars

\* an insertion has put its customer between two waiting entries: three
\* entries wait at one station and the newest is read second
C14_Witness ==
    \E t \in Threads :
        /\ resp[t].op = "insert_customer_at_position"
        /\ resp[t].result = "ok"
        /\ \E x \in entries :
              /\ x.id = nextId - 1
              /\ x.customer_number = resp[t].customer_number
              /\ x.status = "waiting"
              /\ Cardinality(WaitingList(entries, x.station_id)) = 3
              /\ ReadIndex(x, WaitingList(entries, x.station_id)) = 2

\* the positions held by the entries of the list S
Positions(S) == {e.position : e \in S}

\* C15 as stated: InsertAtPosition(station, C, 1), in any reachable state of
\* the queue, increases the position of every previously waiting entry at the
\* target queue station by exactly one, and introduces no duplicate and no
\* skipped position among the waiting entries.
C15_EveryPositionIncreasesByOne ==
    [][\A t \in Threads, s \in StationIds, c \in QueueCustomers :
          (resp'[t].result = "ok" /\ insert_customer_at_position(t, s, c, 1))
          => LET qs == CanonicalStation(s)
                 others == {e \in WaitingList(entries, qs) : e.customer_number # c}
                 after == WaitingList(entries', qs)
             IN  /\ \A e \in others : \E e2 \in after :
                       e2.id = e.id /\ e2.position = e.position + 1
                 /\ Cardinality(Positions(after)) = Cardinality(after)
                 /\ Positions(after) = 1..Cardinality(after)]_vars

\* C15, amended: InsertAtPosition(station, C, 1) puts C at position 1 and
\* renumbers the n previously waiting entries of the target queue station to
\* 2..n+1 in their reading order, so that the waiting entries hold the
\* positions 1..n+1 with no duplicate and no skipped position; the position of
\* a previously waiting entry increases by exactly one when it was equal to
\* the entry's index in the list, as it is when the positions were 1..n.
C15_InsertFirstRenumbers ==
    [][\A t \in Threads, s \in StationIds, c \in QueueCustomers :
          (resp'[t].result = "ok" /\ insert_customer_at_position(t, s, c, 1))
          => LET qs == CanonicalStation(s)
                 others == {e \in WaitingList(entries, qs) : e.customer_number # c}
                 after == WaitingList(entries', qs)
             IN  /\ \E x \in after : x.customer_number = c /\ x.position = 1
                 /\ \A e \in others : \E e2 \in after :
                       /\ e2.id = e.id
                       /\ e2.position = ReadIndex(e, others) + 1
                       /\ e.position = ReadIndex(e, others)
                            => e2.position = e.position + 1
                 /\ Cardinality(after) = Cardinality(others) + 1
                 /\ Cardinality(Positions(after)) = Cardinality(after)
                 /\ Positions(after) = 1..Cardinality(after)]_vars

\* an insertion at position 1 has moved two waiting entries behind the new
\* one: the newest entry holds position 1 and the two others 2 and 3
C15_Witness ==
    \E t \in Threads :
        /\ resp[t].op = "insert_customer_at_position"
        /\ resp[t].result = "ok"
        /\ \E x \in entries :
              /\ x.id = nextId - 1
              /\ x.customer_number = resp[t].customer_number
              /\ x.status = "waiting"
              /\ x.position = 1
              /\ Cardinality(WaitingList(entries, x.station_id)) = 3
              /\ Positions(WaitingList(entries, x.station_id)) = 1..3

\* the customers of the list S in the order in which they are read
ReadsAs(list, S) ==
    /\ Len(list) = Cardinality(S)
    /\ \A e \in S : list[ReadIndex(e, S)] = e.customer_number

\* C16: every operation that resolves a queue station (Enqueue, CallNext,
\* InsertAtPosition, CenterView, StationsList, DailyReport) maps a station with
\* a queue_group_id to the minimum id among the stations sharing that group id
\* and an ungrouped station to itself, so all members of a group resolve to
\* the same station and resolving is idempotent.
C16_QueueStationIsLowestOfGroup ==
    [][/\ \A s \in StationIds :
            /\ queue_station_id(s) = CanonicalStation(s)
            /\ stations[s].queue_group_id = NoGroup => queue_station_id(s) = s
            /\ \A m \in GroupStations(s) : queue_station_id(m) = queue_station_id(s)
            /\ queue_station_id(queue_station_id(s)) = queue_station_id(s)
       /\ \A t \in Threads :
            /\ resp'[t].result = "ok" =>
                 \A s \in StationIds, c \in Customers :
                    (\/ \E tr \in BOOLEAN : add_entry(t, s, c, tr)
                     \/ \E k \in PositionInputs :
                           insert_customer_at_position(t, s, c, k))
                    => \A x \in entries' :
                          (\A e \in entries : e.id # x.id)
                             => x.station_id = CanonicalStation(s)
            /\ center_data(t) =>
                 \A s \in DOMAIN resp'[t].rows :
                    ReadsAs(resp'[t].rows[s].waiting_list,
                            WaitingList(entries, CanonicalStation(s)))
            /\ stations_list(t) =>
                 \A s \in DOMAIN resp'[t].rows :
                    /\ s = CanonicalStation(s)
                    /\ resp'[t].rows[s].waiting_count =
                          Cardinality(WaitingList(entries, s))
            /\ admin_report(t) =>
                 \A s \in DOMAIN resp'[t].rows :
                    resp'[t].rows[s].waiting =
                       Cardinality(WaitingList(entries, CanonicalStation(s)))]_vars

\* CenterView has answered where stations 1 and 3 share a group that station
\* 2 is not in: the row of station 3 shows the customers waiting at station 1
C16_Witness ==
    \E t \in Threads :
        /\ resp[t].op = "center_data"
        /\ stations[3].queue_group_id # NoGroup
        /\ stations[1].queue_group_id = stations[3].queue_group_id
        /\ stations[2].queue_group_id # stations[3].queue_group_id
        /\ Len(resp[t].rows[3].waiting_list) = 2
        /\ resp[t].rows[3].waiting_list = resp[t].rows[1].waiting_list
        /\ \A e \in entries : e.station_id = 1

\* the step changes the Entity Store
StoreChanges == entries' # entries \/ history' # history \/ stations' # stations

\* C17: every write to the Entity Store (queue entries, station fields,
\* history) is performed by a thread that holds the process-wide gate at the
\* moment of the write, including the operator and admin toggles of station
\* fields; read aggregators never write.
C17_WritesHoldTheGate ==
    [][/\ StoreChanges =>
            \E t \in Threads : pc'[t] # pc[t] /\ lock' = t
       /\ \A t \in Threads :
            (center_data(t) \/ stations_list(t) \/ admin_report(t))
               => StoreUnchanged]_vars

\* C18: on every path of every operation that writes (success, early error
\* return, storage exception) the transaction on the store is opened by the
\* thread that holds db_lock and is committed or rolled back before that
\* thread releases it: no thread has an open transaction without holding the
\* lock, so the lock is never free while such a transaction is open.
C18_TransactionInsideTheGate == \A t \in Threads : txn[t] => lock = t

Appended == {history'[i] : i \in (Len(history) + 1)..Len(history')}

\* C20: whenever a step of CallNext, FinishCustomer or ReleaseCustomer
\* changes the status of a queue entry (waiting -> called, called ->
\* completed, also for the entry that CallNext completes at the calling
\* station, completed -> finished, finished -> released), the same step
\* appends a history row for that entry's customer that carries the new
\* status.
C20_StatusChangeIsLogged ==
    [][\A e \in entries : \A f \in entries' :
          (f.id = e.id /\ f.status # e.status)
              => \E r \in Appended : /\ r.customer_number = f.customer_number
                                     /\ r.status = f.status]_vars

\* the entries Enqueue leaves when it succeeds
EnqueueOutcome(station_id, customer_number) ==
    LET held == ExistingActive(entries, customer_number)
        E == IF held = {} THEN entries
             ELSE DeleteAtStation(entries, customer_number,
                                  FirstById(held).station_id)
        qs == queue_station_id(station_id)
    IN  E \cup {NewEntry(nextId, qs, customer_number, max_position(E, qs) + 1)}

\* the entries CallNext leaves when it succeeds
CallNextOutcome(t) ==
    LET s == sel[t].station_id
        called == CallEntry(CompleteCalledAt(entries, s), sel[t].id, s)
    IN  IF stations[s].queue_group_id # NoGroup
        THEN DeleteWaitingElsewhere(called, sel[t].customer_number, s)
        ELSE called

\* the entries TransferToNamedStation leaves when it succeeds
TransferOutcome(customer_number) ==
    DeleteActive(entries, customer_number)
        \cup {NewEntry(nextId, FirstById({[id |-> s] : s \in StationsNamed(PokedName)}).id,
                       customer_number, DefaultPosition)}

\* thread t completes a step of an operation with success
StepSucceeds(t) == pc'[t] = "completed" \/ (pc'[t] = "done" /\ resp'[t].result = "ok")

\* C21: when the INSERT into the history fails inside Enqueue, CallNext,
\* FinishCustomer, ReleaseCustomer or TransferToNamedStation, the operation
\* still succeeds and leaves the queue entries exactly as it does when the
\* INSERT works; the history is the one before the operation, without the new
\* record.
C21_HistoryFailureIsSwallowed ==
    [][\A t \in Threads :
         /\ (~history_ok /\ pc'[t] = "done") => resp'[t].result # "StorageError"
         /\ (~history_ok /\ pc'[t] # pc[t] /\ StepSucceeds(t)) =>
            /\ history' = history
            /\ \A s \in StationInputs, c \in CustomerInputs :
                 /\ (\E tr \in BOOLEAN : add_entry(t, s, c, tr))
                       => entries' = EnqueueOutcome(s, c)
                 /\ finish_customer(t, c)
                       => entries' = CompleteCalledOf(entries, c)
                 /\ (\E o \in CodeInputs : release_customer(t, c, o))
                       => entries' = ReleaseFinishedOf(entries, c)
                 /\ transfer_to_poked(t, c) => entries' = TransferOutcome(c)
            /\ call_next_update(t) => entries' = CallNextOutcome(t)
            /\ finish_customer_finished(t)
                  => entries' = FinishCompletedOf(entries, sel[t].customer_number)
            /\ entries' # entries]_vars

\* reached: FinishCustomer has returned success for a customer whose entry is
\* finished while not one row of the history was written
C21_Witness ==
    \E t \in Threads :
        /\ pc[t] = "done" /\ resp[t].op = "finish_customer"
        /\ resp[t].result = "ok"
        /\ ~history_ok /\ history = <<>>
        /\ \E e \in entries : e.status = "finished"

\* C22: the history is append-only: every step of every operation, the
\* admin's edit and delete of queue entries included, leaves the history it
\* found as a prefix of the history afterwards; no row is changed or removed.
C22_HistoryIsAppendOnly ==
    [][/\ Len(history') >= Len(history)
       /\ \A i \in 1..Len(history) : history'[i] = history[i]]_vars

\* reached: the admin has deleted the only queue entry, and the rows its
\* customer left in the history are still there
C22_Witness ==
    \E t \in Threads :
        /\ pc[t] = "done" /\ resp[t].op = "delete_entry"
        /\ entries = {} /\ Len(history) >= 2

\* C23: CallNext(station, operator) gets past the operator check only when
\* the operator's assigned station is that station; with any other operator
\* code (unknown, assigned to another station, a finish operator assigned to
\* no station) it returns Unauthorized and changes no entry, no station and
\* no history row.
C23_CallNextNeedsTheStationsOperator ==
    [][\A t \in Threads, s \in StationInputs, o \in CodeInputs :
         call_next_select(t, s, o) =>
            IF Assigned(o, s)
            THEN pc'[t] = "selected" \/ resp'[t].result = "QueueEmpty"
            ELSE /\ pc'[t] = "done"
                 /\ resp'[t].result = "Unauthorized"
                 /\ StoreUnchanged]_vars

\* reached: CallNext has been refused as Unauthorized at a station where a
\* customer called earlier is in service and another one is waiting
C23_Witness ==
    \E t \in Threads :
        /\ pc[t] = "done" /\ resp[t].op = "call_next"
        /\ resp[t].result = "Unauthorized"
        /\ \E e, f \in entries : /\ e.station_id = f.station_id
                                 /\ e.status = "called"
                                 /\ f.status = "waiting"

\* the committed store: what the transaction in progress started from, or the
\* store itself when no transaction has uncommitted rows
CommittedStore ==
    IF journal.open
    THEN [entries |-> journal.entries, history |-> journal.history]
    ELSE [entries |-> entries, history |-> history]

\* thread t runs a statement that writes, or returns, in this step
Runs(t) == pc'[t] # pc[t] /\ pc[t] \in {"idle", "selected", "completed"}

Refusals == {"ValidationError", "NotFound", "Unauthorized", "InvalidPosition"}

\* C25: a request that is answered with ValidationError, NotFound,
\* Unauthorized or InvalidPosition (missing input, unknown station, unknown
\* or unassigned operator, wrong password, position below 1) leaves every
\* queue entry, every station field and the history as they were.
C25_RefusalsChangeNothing ==
    [][\A t \in Threads :
         (pc[t] = "idle" /\ pc'[t] = "done" /\ resp'[t].result \in Refusals)
            => StoreUnchanged /\ nextId' = nextId]_vars

\* reached: InsertAtPosition with position 0 has been refused as
\* InvalidPosition while a customer is waiting
C25_Witness ==
    \E t \in Threads :
        /\ pc[t] = "done" /\ resp[t].op = "insert_customer_at_position"
        /\ resp[t].result = "InvalidPosition"
        /\ \E e \in entries : e.status = "waiting"

\* the entries held by station s with status `called`
CalledAt(E, s) == {e \in E : e.station_id = s /\ e.status = "called"}

\* C26: after a successful CallNext at station S exactly one entry held by S
\* is called, the selected one; every entry that was called at S before the
\* call is completed, with completed_at set; the entries called at other
\* stations, the other stations of S's group included, are unchanged.
C26_OneCalledEntryAfterCallNext ==
    [][\A t \in Threads :
         CallReturns(t) =>
           LET s == sel[t].station_id
           IN  /\ Cardinality(CalledAt(entries', s)) = 1
               /\ \A e \in CalledAt(entries', s) : e.id = sel[t].id
               /\ \A e \in CalledAt(entries, s) :
                    \E x \in entries' : /\ x.id = e.id
                                        /\ x.status = "completed"
                                        /\ x.completed_at # NULL
               /\ \A e \in entries :
                    (e.status = "called" /\ e.station_id # s) => e \in entries']_vars

\* reached: a CallNext has returned at a station that holds the entry it
\* called and the entry, called before, that it completed
C26_Witness ==
    \E t \in Threads, e, f \in entries :
        /\ pc[t] = "done" /\ resp[t].op = "call_next" /\ resp[t].result = "ok"
        /\ e.customer_number = resp[t].customer_number
        /\ e.status = "called"
        /\ f.station_id = e.station_id
        /\ f.status = "completed" /\ f.completed_at # NULL

\* C27: in every state reached through Enqueue, CallNext, InsertAtPosition,
\* FinishCustomer, ReleaseCustomer and TransferToNamedStation each station
\* holds at most one entry with status `called`.
C27_AtMostOneCalledPerStation ==
    \A s \in DOMAIN stations : Cardinality(CalledAt(entries, s)) <= 1

\* reached: two customers are in service at the same time, each called from
\* the one waiting line of a queue group by another station of the group
C27_Witness ==
    \E e, f \in entries :
        /\ e.status = "called" /\ f.status = "called"
        /\ e.station_id # f.station_id
        /\ f.station_id \in GroupStations(e.station_id)
        /\ Len(history) >= 4

\* the entries that the step removes from queue_entries
Deleted == {e \in entries : \A x \in entries' : x.id # e.id}

\* C28: a successful CallNext at a grouped station deletes only waiting
\* entries of the called customer that are held by other stations of the
\* same queue group, no entry held by a station outside the group; a
\* successful CallNext at an ungrouped station deletes no entry.
C28_DedupStaysInTheGroup ==
    [][\A t \in Threads :
         CallReturns(t) =>
           LET s == sel[t].station_id
           IN  \A e \in Deleted :
                  /\ stations[s].queue_group_id # NoGroup
                  /\ e.status = "waiting"
                  /\ e.customer_number = sel[t].customer_number
                  /\ e.station_id \in GroupStations(s) \ {s}]_vars

\* the step appends exactly the one history row [c, station s, status]
AppendsOne(c, s, status) ==
    /\ Len(history') = Len(history) + 1
    /\ history'[Len(history')].customer_number = c
    /\ history'[Len(history')].station_id = s
    /\ history'[Len(history')].status = status
    /\ \A i \in 1..Len(history) : history'[i] = history[i]

\* C29: a successful FinishCustomer(c) takes the entry of c that was called
\* to completed and then to finished, with completed_at and finished_at
\* set, and appends two history rows for c at that entry's station,
\* `completed` first and `finished` second; both steps belong to one
\* transaction, opened by the first and committed by the second, under
\* db_lock.
C29_FinishCustomerLogsTwice ==
    [][\A t \in Threads :
         /\ \A c \in Customers :
              (finish_customer(t, c) /\ pc'[t] = "completed") =>
                 /\ \A e \in entries :
                      (e.customer_number = c /\ e.status = "called") =>
                         /\ \E x \in entries' : /\ x.id = e.id
                                                /\ x.status = "completed"
                                                /\ x.completed_at # NULL
                         /\ AppendsOne(c, e.station_id, "completed")
                         /\ sel'[t].station_id = e.station_id
                 /\ journal'.open /\ lock' = t
         /\ finish_customer_finished(t) =>
              /\ \A e \in entries :
                   (e.customer_number = sel[t].customer_number
                      /\ e.status = "completed") =>
                      \E x \in entries' : /\ x.id = e.id
                                          /\ x.status = "finished"
                                          /\ x.completed_at # NULL
                                          /\ x.finished_at # NULL
              /\ AppendsOne(sel[t].customer_number, sel[t].station_id, "finished")
              /\ history[Len(history)].status = "completed"
              /\ history[Len(history)].customer_number = sel[t].customer_number
              /\ journal.open /\ ~journal'.open /\ lock = t
              /\ resp'[t].result = "ok"]_vars

\* reached: FinishCustomer has returned success; the customer's entry is
\* finished with both stamps and the last two history rows are its
\* `completed` and `finished` rows at the entry's station
C29_Witness ==
    \E t \in Threads, e \in entries :
        /\ pc[t] = "done" /\ resp[t].op = "finish_customer"
        /\ resp[t].result = "ok"
        /\ e.customer_number = resp[t].customer_number
        /\ e.status = "finished"
        /\ e.completed_at # NULL /\ e.finished_at # NULL
        /\ Len(history) >= 2
        /\ history[Len(history) - 1].status = "completed"
        /\ history[Len(history) - 1].station_id = e.station_id
        /\ history[Len(history)].status = "finished"
        /\ history[Len(history)].station_id = e.station_id

\* C30: a successful InsertAtPosition(station, c, k) removes only waiting or
\* called entries of c; every entry with status completed, finished or
\* released, of c or of another customer, is left as it was; afterwards c
\* has exactly one active entry, the new waiting entry at the queue station
\* of the target.
C30_InsertRemovesOnlyActiveEntries ==
    [][\A t \in Threads, s \in StationInputs, c \in Customers, k \in PositionInputs :
         (/\ resp'[t].result = "ok"
          /\ insert_customer_at_position(t, s, c, k)) =>
            /\ \A e \in Deleted : e.customer_number = c /\ e.status \in Active
            /\ \A e \in entries : e.status \notin Active => e \in entries'
            /\ \E x \in entries' :
                  /\ ActiveOf(entries', c) = {x}
                  /\ x.status = "waiting"
                  /\ x.station_id = CanonicalStation(s)
                  /\ \A e \in entries : e.id # x.id]_vars

\* the station whose name is PokedName
NamedStation == CHOOSE s \in StationsNamed(PokedName) : \A x \in StationsNamed(PokedName) : s <= x

\* C31: a successful TransferToNamedStation(c, target_name) deletes every
\* waiting or called entry of c at every station, creates one waiting entry
\* for c held by the station named target_name, and appends one history row
\* with action `transferred` whose station_id and station_name are those of
\* that station.
C31_TransferIsLoggedAtTheNamedStation ==
    [][\A t \in Threads, c \in Customers :
         (resp'[t].result = "ok" /\ transfer_to_poked(t, c)) =>
            /\ \A e \in ActiveOf(entries, c) : e \in Deleted
            /\ \E x \in entries' :
                  /\ ActiveOf(entries', c) = {x}
                  /\ x.status = "waiting"
                  /\ x.station_id = NamedStation
                  /\ \A e \in entries : e.id # x.id
            /\ Len(history') = Len(history) + 1
            /\ history'[Len(history')].customer_number = c
            /\ history'[Len(history')].action = "transferred"
            /\ history'[Len(history')].station_id = NamedStation
            /\ history'[Len(history')].station_name = stations[NamedStation].name]_vars

\* the place in the history of customer c's latest successful Enqueue
EnqueuedAt(c) ==
    Max({0} \cup {i \in 1..Len(history) :
                    history[i].action = "added" /\ history[i].customer_number = c})

\* C32: with only Enqueue and CallNext in use, the customers of one queue (an
\* ungrouped station, or a whole queue group whatever member station each
\* Enqueue and each CallNext names) are called in the order in which their
\* Enqueue calls succeeded: the customer a CallNext returns was enqueued
\* before every other customer waiting in that queue.
C32_CalledInEnqueueOrder ==
    [][\A t \in Threads :
         CallReturns(t) =>
            \A e \in WaitingInGroup(entries, sel[t].station_id) :
               /\ EnqueuedAt(e.customer_number) > 0
               /\ e.id # sel[t].id =>
                     EnqueuedAt(sel[t].customer_number) < EnqueuedAt(e.customer_number)]_vars

\* a CallNext named one station of the group and returned the customer that a
\* different member station was named for at Enqueue, while a customer
\* enqueued later is still waiting and a third one was called before
C32_Witness ==
    \E t \in Threads, a \in entries, b \in entries, c \in entries :
        /\ pc[t] = "done" /\ resp[t].op = "call_next" /\ resp[t].result = "ok"
        /\ a.status = "completed" /\ b.status = "called" /\ c.status = "waiting"
        /\ b.customer_number = resp[t].customer_number
        /\ a.id < b.id /\ b.id < c.id
        /\ stations[b.station_id].queue_group_id # NoGroup
        /\ b.station_id # CanonicalStation(b.station_id)
        /\ c.station_id = CanonicalStation(b.station_id)

\* the place in the history of customer c's latest TransferToNamedStation
TransferredAt(c) ==
    Max({0} \cup {i \in 1..Len(history) :
                    /\ history[i].action = "transferred_to_poked"
                    /\ history[i].customer_number = c})

\* the place in the history of the operation that created c's waiting entry
EntryCreatedAt(c) == Max({EnqueuedAt(c), TransferredAt(c)})

\* C33: a waiting entry created by TransferToNamedStation is ordered after
\* every entry already waiting in that station's queue: absent
\* InsertAtPosition, a CallNext for that queue does not return the transferred
\* customer while a customer who was waiting there before the transfer is
\* still waiting.
C33_TransferredWaitsBehind ==
    [][\A t \in Threads :
         CallReturns(t) =>
            LET c == sel[t].customer_number
            IN  \A x \in WaitingInGroup(entries, sel[t].station_id) :
                   ~(/\ x.id # sel[t].id
                     /\ TransferredAt(c) = EntryCreatedAt(c)
                     /\ 0 < EntryCreatedAt(x.customer_number)
                     /\ EntryCreatedAt(x.customer_number) < TransferredAt(c))]_vars

\* thread t returns from a successful finish_customer in this step; the
\* journal holds the entries as they were when the handler began
FinishReturns(t) ==
    pc[t] = "completed" /\ pc'[t] = "done" /\ resp'[t].result = "ok"

\* C34: a successful FinishCustomer(c) changes only the one entry of c that
\* had status called; every other queue entry, older entries of c that are
\* completed from an earlier visit included, keeps its status and timestamps.
C34_FinishChangesOnlyTheCalledEntry ==
    [][\A t \in Threads :
         FinishReturns(t) =>
            /\ Cardinality({e \in journal.entries :
                              InService(e, sel[t].customer_number)}) = 1
            /\ \A e \in journal.entries :
                  ~InService(e, sel[t].customer_number) => e \in entries']_vars

\* thread t returns from a successful release_customer in this step
ReleaseReturns(t, c) ==
    /\ resp'[t].result = "ok"
    /\ \E o \in OperatorCodes : release_customer(t, c, o)

\* C35: a successful ReleaseCustomer(c, operator) changes exactly one queue
\* entry, one finished entry of c becoming released, and appends exactly one
\* history record; when c has several finished entries the others stay
\* finished.
C35_ReleaseChangesOneEntry ==
    [][\A t \in Threads, c \in Customers :
         ReleaseReturns(t, c) =>
            /\ Cardinality(entries \ entries') = 1
            /\ \E e \in entries \ entries' :
                  /\ e.customer_number = c /\ e.status = "finished"
                  /\ [e EXCEPT !.status = "released", !.released_at = now] \in entries'
            /\ Len(history') = Len(history) + 1
            /\ history'[Len(history')].action = "released"
            /\ history'[Len(history')].customer_number = c]_vars

\* no request is being served
Quiescent == \A t \in Threads : pc[t] = "idle"

\* C36: in every quiescent state reachable through non-admin engine
\* operations, for every visible station whose CenterView waiting list is
\* non-empty, the customer a CallNext at that station returns next is the
\* first customer of the displayed list, and the displayed list is empty
\* exactly when that CallNext would fail with QueueEmpty.
C36_DisplayedHeadIsCalledNext ==
    Quiescent =>
        \A s \in DOMAIN center_rows :
            LET list == center_rows[s].waiting_list
                rows == CallCandidates(entries, s)
            IN  /\ list = <<>> <=> rows = {}
                /\ list # <<>> => list[1] = FirstInOrder(rows).customer_number

\* C37: in every state reachable through non-admin engine operations each
\* entry's timestamps agree with its status: a waiting entry has none of
\* called_at, completed_at, finished_at, released_at set; a called entry has
\* called_at set and the later three unset; a finished entry has completed_at
\* and finished_at set and released_at unset; a released entry has released_at
\* set; and no timestamp, once set, is ever overwritten.
C37_StampsAgreeWithStatus ==
    [][/\ \A x \in entries' :
            /\ x.status = "waiting" =>
                  /\ x.called_at = NULL /\ x.completed_at = NULL
                  /\ x.finished_at = NULL /\ x.released_at = NULL
            /\ x.status = "called" =>
                  /\ x.called_at # NULL /\ x.completed_at = NULL
                  /\ x.finished_at = NULL /\ x.released_at = NULL
            /\ x.status = "finished" =>
                  /\ x.completed_at # NULL /\ x.finished_at # NULL
                  /\ x.released_at = NULL
            /\ x.status = "released" => x.released_at # NULL
       /\ \A e \in entries, x \in entries' :
            x.id = e.id =>
               \A i \in 1..5 : Stamps(e)[i] # NULL => Stamps(x)[i] = Stamps(e)[i]]_vars

\* a ReleaseCustomer has just succeeded, a second after the entry was
\* finished, while another entry is waiting
C37_Witness ==
    \E t \in Threads, e \in entries, w \in entries :
        /\ pc[t] = "done" /\ resp[t].op = "release_customer" /\ resp[t].result = "ok"
        /\ e.status = "released" /\ e.customer_number = resp[t].customer_number
        /\ e.finished_at < e.released_at
        /\ w.status = "waiting"

====
